---- MODULE Spec2Model ----
(***************************************************************************)
(* Caching proxy for financial reference data (earnings-db).               *)
(*                                                                         *)
(* Reference data: FundamentalsService and MarketCapService share the      *)
(* `fundamental` table of the relational store and keep separate Redis     *)
(* keys ("fundamentals:T", "marketcap:T").  Calendar data: EarningsService *)
(* keeps the `earning` table and Redis keys derived from the query.        *)
(*                                                                         *)
(* Time is counted in days.  A field value 0 stands for undefined/null.    *)
(***************************************************************************)
EXTENDS Integers, Sequences, FiniteSets, TLC

VARIABLES
  now,      \* the current day
  db,       \* the `fundamental` table: ticker -> row
  redis,    \* the Redis keyspace: key -> stored entry
  last,     \* the most recent request and what its caller received
  earning,  \* the `earning` table: a set of rows, one per event id
  pending,  \* background work that was started and has not finished
  prim,     \* the most recent answer of getPrimaryEarnings
  input,    \* the event list handed to the primary/secondary split
  refresh   \* requests that run concurrently: where each one stands

vars == <<now, db, redis, last, earning, pending, prim, input, refresh>>

\* the state of the calendar service
earnVars == <<earning, pending, prim, input, refresh>>

\* ------------------------------------------------------------------------
\* Bounds of the model
\* ------------------------------------------------------------------------
MaxTime == 12

\* the clock advances in steps of TickDays days
TickDays == 4

RefTickers == {"AAA"}

\* tickers that report earnings
EarnTickers == {"A", "B", "C"}

Tickers == RefTickers \cup EarnTickers

\* market capitalisations range over 1..MaxCap
MaxCap == 2

\* the longest event list handed to the primary/secondary split
MaxEvents == 6

\* the longest event list used to probe the session rules
MaxSessionEvents == 2

\* longest ticker list of one batch request
MaxBatch == 2

\* the largest figure of an income statement
MaxFigure == 1

\* the longest list of events the upstream answers with in one call, where
\* the batches of storeInDatabase are studied
MaxStored == 205

\* ------------------------------------------------------------------------
\* Program constants (days)
\* ------------------------------------------------------------------------
CACHE_TTL_FUNDAMENTALS == 7

CACHE_TTL_MARKET_CAP == 1

\* redis.ts CACHE_TTL.LOGO, in days
CACHE_TTL_LOGO == 1

UPDATE_THRESHOLD_FUNDAMENTALS == 7

\* undefined / null / missing property
Absent == 0

\* the empty string written by `fundamentalsData.name || ''`
EmptyString == -1

\* ------------------------------------------------------------------------
\* Data shapes
\* ------------------------------------------------------------------------
\* columns of the `fundamental` table that the model tracks
DbFields ==
  {"companyName", "exchange", "sector", "industry", "marketCap",
   "currentPrice", "priceToEarnings", "revenue", "netIncome", "profitMargin",
   "totalAssets", "operatingCashFlow", "week52High", "week52Low"}

\* properties of FundamentalsData that the model tracks
DataFields ==
  {"name", "exchange", "sector", "industry", "marketCap",
   "currentPrice", "priceToEarnings", "revenue", "netIncome", "profitMargin",
   "totalAssets", "operatingCashFlow", "fiftyTwoWeekHigh", "fiftyTwoWeekLow"}

\* properties of MarketCapData that the model tracks
McFields ==
  {"marketCap", "week52High", "week52Low", "currentPrice", "sector",
   "industry", "exchange", "companyName"}

NoRow == [exists |-> FALSE, updatedAt |-> 0, vals |-> [f \in DbFields |-> Absent]]

EmptyData == [f \in DataFields |-> Absent]

EmptyMc == [f \in McFields |-> Absent]

\* JavaScript truthiness of a field value: undefined, null, 0 and '' are falsy
Truthy(v) == v # Absent /\ v # EmptyString

\* ------------------------------------------------------------------------
\* Upstream (Polygon) responses: one answer per endpoint
\* ------------------------------------------------------------------------
TickerFull == [name |-> 1, primary_exchange |-> 1, sic_description |-> 1,
               market_cap |-> 1, close_price |-> Absent]

RatiosFull == [price |-> 1, market_cap |-> 1, price_to_earnings |-> 1]

IncomeFull == [revenue |-> 1, net_income |-> 1]

BalanceFull == [total_assets |-> 1]

CashFlowFull == [operating |-> 1]

AggsFull == [h |-> 1, l |-> 1, c |-> 1]

\* status: "ok" | "error" (timeout, 5xx, empty result) | "404"
Ok(d) == [status |-> "ok", data |-> d]

Failed(s, d) == [status |-> s, data |-> d]

FullResponse ==
  [ticker |-> Ok(TickerFull), ratios |-> Ok(RatiosFull), income |-> Ok(IncomeFull),
   balance |-> Ok(BalanceFull), cashFlow |-> Ok(CashFlowFull), aggs |-> Ok(AggsFull)]

NotFoundResponse ==
  [ticker |-> Failed("404", TickerFull), ratios |-> Failed("error", RatiosFull),
   income |-> Failed("error", IncomeFull), balance |-> Failed("error", BalanceFull),
   cashFlow |-> Failed("error", CashFlowFull), aggs |-> Failed("error", AggsFull)]

\* the answers the upstream can give to one refresh cycle: everything, one
\* endpoint failing, an unknown symbol, or a field missing in an answer
Responses ==
  {FullResponse, NotFoundResponse,
   [FullResponse EXCEPT !.ticker = Failed("error", TickerFull)],
   [FullResponse EXCEPT !.ratios = Failed("error", RatiosFull)],
   [FullResponse EXCEPT !.income = Failed("error", IncomeFull)],
   [FullResponse EXCEPT !.balance = Failed("error", BalanceFull)],
   [FullResponse EXCEPT !.cashFlow = Failed("error", CashFlowFull)],
   [FullResponse EXCEPT !.aggs = Failed("error", AggsFull)],
   [FullResponse EXCEPT !.ticker = Ok([TickerFull EXCEPT !.sic_description = Absent])],
   [FullResponse EXCEPT !.ratios = Ok([RatiosFull EXCEPT !.market_cap = Absent])]}

\* ------------------------------------------------------------------------
\* Redis helpers (utils/redis.ts)
\* ------------------------------------------------------------------------
FKey(t) == "fundamentals:" \o t

MKey(t) == "marketcap:" \o t

LKey(t) == "logo:" \o t

\* a stored string: kind "none" = no key, "null" = the string "null",
\* "obj" = a serialised object
NoEntry == [kind |-> "none", exp |-> 0]

JsonNull == [kind |-> "null"]

JsonObj(v) == [kind |-> "obj", val |-> v]

\* redis.get: the key is gone once its TTL has run out
RedisGet(key) ==
  IF redis[key].kind # "none" /\ now < redis[key].exp THEN redis[key] ELSE NoEntry

\* getCached: `data ? JSON.parse(data) : null`, null on any Redis error
getCached(key, redisUp) ==
  IF ~redisUp THEN JsonNull
  ELSE LET data == RedisGet(key)
       IN IF data.kind = "none" THEN JsonNull
          ELSE IF data.kind = "null" THEN JsonNull
          ELSE JsonObj(data.val)

\* `if (cached)`
IsHit(cached) == cached.kind # "null"

\* getCachedMany: one mget, `v ? JSON.parse(v) : null` per value, every value
\* null on a Redis error
getCachedMany(keys, redisUp) ==
  [i \in 1..Len(keys) |-> getCached(keys[i], redisUp)]

\* a cache write that stores nothing
setCachedNothing(r, key, value, ttl, redisUp) == r

\* setCached: redis.setex(key, ttl, JSON.stringify(value)), errors swallowed;
\* SETEX answers with an error when ttl is not positive
setCached(r, key, value, ttl, redisUp) ==
  IF ~redisUp \/ ttl <= 0 THEN r
  ELSE [r EXCEPT ![key] =
          IF value.kind = "null" THEN [kind |-> "null", exp |-> now + ttl]
          ELSE [kind |-> "obj", val |-> value.val, exp |-> now + ttl]]

\* deleteCached: redis.del(key), errors swallowed
deleteCached(r, key, redisUp) ==
  IF ~redisUp THEN r ELSE [r EXCEPT ![key] = NoEntry]

\* ------------------------------------------------------------------------
\* Prisma helpers: in `update` and `create` data an undefined value means
\* "leave the column alone" (update) or "column stays NULL" (create)
\* ------------------------------------------------------------------------
PrismaUpdate(row, data) ==
  [exists |-> TRUE, updatedAt |-> now,
   vals |-> [f \in DbFields |-> IF data[f] = Absent THEN row.vals[f] ELSE data[f]]]

PrismaCreate(data) ==
  [exists |-> TRUE, updatedAt |-> now, vals |-> data]

\* prisma.fundamental.upsert({where: {ticker}, update, create})
PrismaUpsert(d, t, update, create) ==
  [d EXCEPT ![t] = IF d[t].exists THEN PrismaUpdate(d[t], update)
                   ELSE PrismaCreate(create)]

\* ------------------------------------------------------------------------
\* FundamentalsService (services/fundamentalsService.ts)
\* ------------------------------------------------------------------------
CriticalFields ==
  {"exchange", "sector", "industry", "marketCap", "currentPrice",
   "totalAssets", "revenue", "operatingCashFlow"}

\* a completeness test that leaves out total assets
isIncompleteWithoutTotalAssets(data) ==
  \E f \in CriticalFields \ {"totalAssets"} : ~Truthy(data[f])

\* FundamentalsService.isIncompleteData
isIncompleteData(data) == \E f \in CriticalFields : ~Truthy(data[f])

\* `db.x ? Number(db.x) : undefined`
NumberOrUndefined(v) == IF Truthy(v) THEN v ELSE Absent

dbToFundamentalsData(row) ==
  [f \in DataFields |->
     CASE f = "name" -> row.vals["companyName"]
       [] f \in {"exchange", "sector", "industry"} -> row.vals[f]
       [] f = "fiftyTwoWeekHigh" -> NumberOrUndefined(row.vals["week52High"])
       [] f = "fiftyTwoWeekLow" -> NumberOrUndefined(row.vals["week52Low"])
       [] OTHER -> NumberOrUndefined(row.vals[f])]

\* each fetchX returns an object with all of its keys (some undefined) or null
NoPart == [ok |-> FALSE, part |-> <<>>]

fetchTickerInfo(resp) ==
  IF resp.ticker.status # "ok" THEN NoPart
  ELSE [ok |-> TRUE,
        part |-> [name |-> resp.ticker.data.name,
                  exchange |-> resp.ticker.data.primary_exchange,
                  sector |-> resp.ticker.data.sic_description,
                  industry |-> resp.ticker.data.sic_description,
                  marketCap |-> resp.ticker.data.market_cap]]

fetchRatios(resp) ==
  IF resp.ratios.status # "ok" THEN NoPart
  ELSE [ok |-> TRUE,
        part |-> [currentPrice |-> resp.ratios.data.price,
                  marketCap |-> resp.ratios.data.market_cap,
                  priceToEarnings |-> resp.ratios.data.price_to_earnings]]

fetchIncomeStatement(resp) ==
  IF resp.income.status # "ok" THEN NoPart
  ELSE LET revenue == resp.income.data.revenue
           netIncome == resp.income.data.net_income
       IN [ok |-> TRUE,
           part |-> [revenue |-> revenue,
                     netIncome |-> netIncome,
                     profitMargin |-> IF Truthy(revenue) /\ Truthy(netIncome)
                                      THEN 1 ELSE Absent]]

fetchBalanceSheet(resp) ==
  IF resp.balance.status # "ok" THEN NoPart
  ELSE [ok |-> TRUE, part |-> [totalAssets |-> resp.balance.data.total_assets]]

fetchCashFlow(resp) ==
  IF resp.cashFlow.status # "ok" THEN NoPart
  ELSE [ok |-> TRUE, part |-> [operatingCashFlow |-> resp.cashFlow.data.operating]]

fetch52WeekData(resp) ==
  IF resp.aggs.status # "ok" THEN NoPart
  ELSE [ok |-> TRUE, part |-> [fiftyTwoWeekHigh |-> resp.aggs.data.h,
                               fiftyTwoWeekLow |-> resp.aggs.data.l]]

\* Object.assign(target, source): every own key of source is copied, an
\* undefined value included
ObjectAssign(target, src) ==
  IF ~src.ok THEN target
  ELSE [f \in DataFields |-> IF f \in DOMAIN src.part THEN src.part[f] ELSE target[f]]

\* the object built by fetchFromPolygon from the six settled sub-fetches
FundamentalsMerged(resp) ==
  LET d1 == ObjectAssign(EmptyData, fetchTickerInfo(resp))
      d2 == ObjectAssign(d1, fetchRatios(resp))
      d3 == ObjectAssign(d2, fetchIncomeStatement(resp))
      d4 == ObjectAssign(d3, fetchBalanceSheet(resp))
      d5 == ObjectAssign(d4, fetchCashFlow(resp))
  IN ObjectAssign(d5, fetch52WeekData(resp))

\* updateData of fetchFromPolygon
FundamentalsUpdateData(data) ==
  [f \in DbFields |->
     CASE f = "companyName" -> (IF Truthy(data["name"]) THEN data["name"] ELSE EmptyString)
       [] f = "week52High" -> data["fiftyTwoWeekHigh"]
       [] f = "week52Low" -> data["fiftyTwoWeekLow"]
       [] OTHER -> data[f]]

\* the fields of the table for which this answer of the upstream carries a value
FundamentalsFresh(resp) ==
  LET data == FundamentalsMerged(resp)
  IN {f \in DbFields : f # "companyName" /\ FundamentalsUpdateData(data)[f] # Absent}
     \cup {f \in {"companyName"} : data["name"] # Absent}

\* what the store and the cache do during one request: dbUp = queries and
\* deletes succeed, dbWrite = the upsert succeeds, redisUp = Redis answers;
\* at most one of the two collaborators misbehaves during a request
IoOutcomes ==
  {[dbUp |-> TRUE, dbWrite |-> TRUE, redisUp |-> TRUE],
   [dbUp |-> FALSE, dbWrite |-> FALSE, redisUp |-> TRUE],
   [dbUp |-> TRUE, dbWrite |-> FALSE, redisUp |-> TRUE],
   [dbUp |-> TRUE, dbWrite |-> TRUE, redisUp |-> FALSE]}

\* an outcome of a request: the new store and cache, and what the caller got
\* (path = the branch of the handler that produced the answer)
Outcome(d, r, status, data, upstream, path, fresh) ==
  [db |-> d, redis |-> r, status |-> status, data |-> data,
   upstream |-> upstream, path |-> path, fresh |-> fresh]

\* FundamentalsService.fetchFromPolygon
FundamentalsFetchFromPolygon(d, r, t, resp, io, path) ==
  LET data == FundamentalsMerged(resp)
      updateData == FundamentalsUpdateData(data)
  IN IF ~io.dbWrite
     THEN Outcome(d, r, "notfound", EmptyData, TRUE, path, {})
     ELSE Outcome(PrismaUpsert(d, t, updateData, updateData),
                  setCached(r, FKey(t), JsonObj(data), CACHE_TTL_FUNDAMENTALS, io.redisUp),
                  "ok", data, TRUE, path, FundamentalsFresh(resp))

\* FundamentalsService.clearCache: Redis key and table row
clearCacheDb(d, t, dbUp) == IF dbUp THEN [d EXCEPT ![t] = NoRow] ELSE d

clearCacheRedis(r, t, redisUp) == deleteCached(r, FKey(t), redisUp)

\* FundamentalsService.getFundamentals
getFundamentals(t, resp, io) ==
  LET cached == getCached(FKey(t), io.redisUp)
      refetch(path) == FundamentalsFetchFromPolygon(clearCacheDb(db, t, io.dbUp),
                                                    clearCacheRedis(redis, t, io.redisUp),
                                                    t, resp, io, path)
  IN IF IsHit(cached)
     THEN IF isIncompleteData(cached.val) THEN refetch("cache_incomplete")
          ELSE Outcome(db, redis, "ok", cached.val, FALSE, "cache_hit", {})
     ELSE IF ~io.dbUp
     THEN Outcome(db, redis, "error", EmptyData, FALSE, "db_error", {})
     ELSE IF db[t].exists /\ now - db[t].updatedAt < UPDATE_THRESHOLD_FUNDAMENTALS
     THEN LET fundamentalsData == dbToFundamentalsData(db[t])
          IN IF isIncompleteData(fundamentalsData) THEN refetch("db_incomplete")
             ELSE Outcome(db,
                          setCached(redis, FKey(t), JsonObj(fundamentalsData),
                                    CACHE_TTL_FUNDAMENTALS, io.redisUp),
                          "ok", fundamentalsData, FALSE, "db_hit", {})
     ELSE FundamentalsFetchFromPolygon(db, redis, t, resp, io, "fetch")

\* ------------------------------------------------------------------------
\* MarketCapService (services/marketCapService.ts)
\* ------------------------------------------------------------------------
\* `value || undefined`
OrUndefined(v) == IF Truthy(v) THEN v ELSE Absent

\* the MarketCapData built from a fresh row of the table
dbToMarketCapData(row) ==
  [f \in McFields |->
     CASE f = "companyName" -> row.vals["companyName"]
       [] f = "marketCap" -> row.vals["marketCap"]
       [] f \in {"sector", "industry", "exchange"} -> OrUndefined(row.vals[f])
       [] OTHER -> NumberOrUndefined(row.vals[f])]

\* `existingData?.x ? Number(existingData.x) : undefined`
Existing(existing, f) ==
  IF existing.exists THEN NumberOrUndefined(existing.vals[f]) ELSE Absent

\* `!existingData || !existingData.x`
Needs(existing, f) == ~existing.exists \/ ~Truthy(existing.vals[f])

needs52WeekData(existing) == Needs(existing, "week52High") \/ Needs(existing, "week52Low")

needsIncomeStatement(existing) == Needs(existing, "revenue")

needsCashFlow(existing) == Needs(existing, "operatingCashFlow")

needsBalanceSheet(existing) == Needs(existing, "totalAssets")

needsRatios(existing) == Needs(existing, "priceToEarnings")

\* the upstream endpoints, named as the fields of a response
Endpoints == {"ticker", "ratios", "income", "cashFlow", "balance", "aggs"}

\* a fetchFromPolygon that asks every endpoint whatever the row holds
MarketCapApiCallsAll(existing) == Endpoints

\* the `apiCalls` of MarketCapService.fetchFromPolygon: the ticker details
\* always, every other endpoint when its `needs...` flag is set
MarketCapApiCalls(existing) ==
  {"ticker"}
  \cup {e \in {"aggs"} : needs52WeekData(existing)}
  \cup {e \in {"income"} : needsIncomeStatement(existing)}
  \cup {e \in {"cashFlow"} : needsCashFlow(existing)}
  \cup {e \in {"balance"} : needsBalanceSheet(existing)}
  \cup {e \in {"ratios"} : needsRatios(existing)}

\* the local variables of fetchFromPolygon once every answer is processed:
\* the value kept from the existing row unless the endpoint was asked and
\* answered, in which case the answer's property (undefined included)
MarketCapLocals(existing, resp) ==
  LET aggsUsed == needs52WeekData(existing) /\ resp.aggs.status = "ok"
      incomeUsed == needsIncomeStatement(existing) /\ resp.income.status = "ok"
      cashUsed == needsCashFlow(existing) /\ resp.cashFlow.status = "ok"
      balanceUsed == needsBalanceSheet(existing) /\ resp.balance.status = "ok"
      ratiosUsed == needsRatios(existing) /\ resp.ratios.status = "ok"
      revenue == IF incomeUsed THEN resp.income.data.revenue ELSE Existing(existing, "revenue")
      netIncome == IF incomeUsed THEN resp.income.data.net_income
                   ELSE Existing(existing, "netIncome")
  IN [week52High |-> IF aggsUsed THEN resp.aggs.data.h ELSE Existing(existing, "week52High"),
      week52Low |-> IF aggsUsed THEN resp.aggs.data.l ELSE Existing(existing, "week52Low"),
      snapshotPrice |-> IF aggsUsed THEN resp.aggs.data.c ELSE Absent,
      revenue |-> revenue,
      netIncome |-> netIncome,
      operatingCashFlow |-> IF cashUsed THEN resp.cashFlow.data.operating
                            ELSE Existing(existing, "operatingCashFlow"),
      totalAssets |-> IF balanceUsed THEN resp.balance.data.total_assets
                      ELSE Existing(existing, "totalAssets"),
      priceToEarnings |-> IF ratiosUsed THEN resp.ratios.data.price_to_earnings
                          ELSE Existing(existing, "priceToEarnings"),
      profitMargin |-> IF needsIncomeStatement(existing) /\ Truthy(revenue) /\ netIncome # Absent
                       THEN 1 ELSE Existing(existing, "profitMargin")]

\* the marketCapData object of fetchFromPolygon
MarketCapDataOf(existing, resp) ==
  LET result == resp.ticker.data
      loc == MarketCapLocals(existing, resp)
  IN [marketCap |-> result.market_cap,
      week52High |-> loc.week52High,
      week52Low |-> loc.week52Low,
      currentPrice |-> IF Truthy(loc.snapshotPrice) THEN loc.snapshotPrice
                       ELSE result.close_price,
      sector |-> result.sic_description,
      industry |-> result.primary_exchange,
      exchange |-> result.primary_exchange,
      companyName |-> result.name]

\* the `update` data of the upsert in fetchFromPolygon
MarketCapUpdateData(existing, resp) ==
  LET mc == MarketCapDataOf(existing, resp)
      loc == MarketCapLocals(existing, resp)
  IN [f \in DbFields |-> IF f \in McFields THEN mc[f] ELSE loc[f]]

\* the `create` data: companyName falls back to the ticker
MarketCapCreateData(existing, resp) ==
  LET u == MarketCapUpdateData(existing, resp)
  IN [u EXCEPT !["companyName"] = IF Truthy(u["companyName"]) THEN u["companyName"] ELSE 1]

\* the columns for which this cycle received a value from the upstream
MarketCapFresh(existing, resp) ==
  LET result == resp.ticker.data
  IN {f \in {"marketCap"} : result.market_cap # Absent}
     \cup {f \in {"companyName"} : result.name # Absent}
     \cup {f \in {"sector"} : result.sic_description # Absent}
     \cup {f \in {"industry", "exchange"} : result.primary_exchange # Absent}
     \cup {f \in {"week52High", "week52Low", "currentPrice"} :
             needs52WeekData(existing) /\ resp.aggs.status = "ok"}
     \cup {f \in {"revenue", "netIncome", "profitMargin"} :
             needsIncomeStatement(existing) /\ resp.income.status = "ok"}
     \cup {f \in {"operatingCashFlow"} :
             needsCashFlow(existing) /\ resp.cashFlow.status = "ok"}
     \cup {f \in {"totalAssets"} :
             needsBalanceSheet(existing) /\ resp.balance.status = "ok"}
     \cup {f \in {"priceToEarnings"} :
             needsRatios(existing) /\ resp.ratios.status = "ok"}

\* MarketCapService.fetchFromPolygon(ticker, existingData)
MarketCapFetchFromPolygon(t, existing, resp, io) ==
  IF resp.ticker.status = "404"
  THEN Outcome(db, setCached(redis, MKey(t), JsonNull, CACHE_TTL_MARKET_CAP, io.redisUp),
               "notfound", EmptyMc, TRUE, "fetch", {})
  ELSE IF resp.ticker.status # "ok" \/ ~Truthy(resp.ticker.data.market_cap)
  THEN Outcome(db, redis, "notfound", EmptyMc, TRUE, "fetch", {})
  ELSE LET marketCapData == MarketCapDataOf(existing, resp)
       IN Outcome(IF io.dbWrite
                  THEN PrismaUpsert(db, t, MarketCapUpdateData(existing, resp),
                                    MarketCapCreateData(existing, resp))
                  ELSE db,
                  setCached(redis, MKey(t), JsonObj(marketCapData),
                            CACHE_TTL_FUNDAMENTALS, io.redisUp),
                  "ok", marketCapData, TRUE, "fetch", MarketCapFresh(existing, resp))

\* MarketCapService.getMarketCap
getMarketCap(t, resp, io) ==
  LET cached == getCached(MKey(t), io.redisUp)
  IN IF IsHit(cached)
     THEN Outcome(db, redis, "ok", cached.val, FALSE, "cache_hit", {})
     ELSE IF ~io.dbUp
     THEN Outcome(db, redis, "error", EmptyMc, FALSE, "db_error", {})
     ELSE IF db[t].exists /\ Truthy(db[t].vals["marketCap"])
             /\ now - db[t].updatedAt < UPDATE_THRESHOLD_FUNDAMENTALS
     THEN LET marketCapData == dbToMarketCapData(db[t])
          IN Outcome(db,
                     setCached(redis, MKey(t), JsonObj(marketCapData),
                               CACHE_TTL_FUNDAMENTALS, io.redisUp),
                     "ok", marketCapData, FALSE, "db_hit", {})
     ELSE MarketCapFetchFromPolygon(t, db[t], resp, io)

\* String.prototype.toUpperCase on the symbols the clients send
toUpperCase(s) == IF s = "a" THEN "A" ELSE s

\* `[...new Set(list)]`: the first occurrence of every element, in order
RECURSIVE SetOrder(_)
SetOrder(list) ==
  IF list = <<>> THEN <<>>
  ELSE LET front == SetOrder(SubSeq(list, 1, Len(list) - 1))
           x == list[Len(list)]
       IN IF \E i \in 1..Len(front) : front[i] = x THEN front ELSE Append(front, x)

\* the upper-cased tickers with their repetitions
upperCasedTickers(tickers) ==
  [i \in 1..Len(tickers) |-> toUpperCase(tickers[i])]

\* `[...new Set(tickers.map(t => t.toUpperCase()))]`
uniqueTickers(tickers) ==
  SetOrder([i \in 1..Len(tickers) |-> toUpperCase(tickers[i])])

\* a MarketCapData with its `ticker` property
MarketCapRecord(t, data) == [ticker |-> t, data |-> data]

\* the tickers of the batch that were not found in the cache, in order
tickersToFetch(unique, cachedResults) ==
  LET misses == {i \in 1..Len(unique) : ~IsHit(cachedResults[i])}
  IN [k \in 1..Cardinality(misses) |->
        unique[CHOOSE i \in misses : Cardinality({j \in misses : j <= i}) = k]]

\* `Promise.all(tickersToFetch.map(ticker => this.getMarketCap(ticker)))`: the
\* calls run concurrently, each reads and writes the Redis key and the row of
\* its own ticker only, and their outcomes are delivered by position
fetchedResults(toFetch, respOf, io) ==
  [k \in 1..Len(toFetch) |-> getMarketCap(toFetch[k], respOf[toFetch[k]], io)]

\* the merge loop and the final filter of getMarketCaps, with what the calls
\* left in the table and in Redis; one rejected call rejects the batch
mergeResults(unique, cachedResults, toFetch, fetched) ==
  LET fetchIndex(i) == Cardinality({j \in 1..i : ~IsHit(cachedResults[j])})
      results ==
        [i \in 1..Len(unique) |->
           IF IsHit(cachedResults[i])
           THEN [found |-> TRUE, rec |-> MarketCapRecord(unique[i], cachedResults[i].val)]
           ELSE [found |-> fetched[fetchIndex(i)].status = "ok",
                 rec |-> MarketCapRecord(toFetch[fetchIndex(i)],
                                         fetched[fetchIndex(i)].data)]]
      kept == SelectSeq(results, LAMBDA x : x.found)
      rejected == \E k \in 1..Len(toFetch) : fetched[k].status = "error"
      callOf(t) == CHOOSE k \in 1..Len(toFetch) : toFetch[k] = t
      fetchedTickers == {toFetch[k] : k \in 1..Len(toFetch)}
  IN [db |-> [t \in DOMAIN db |->
                IF t \in fetchedTickers THEN fetched[callOf(t)].db[t] ELSE db[t]],
      redis |-> [key \in DOMAIN redis |->
                   IF \E t \in fetchedTickers : key = MKey(t)
                   THEN fetched[callOf(CHOOSE t \in fetchedTickers : key = MKey(t))].redis[key]
                   ELSE redis[key]],
      status |-> IF rejected THEN "error" ELSE "ok",
      data |-> IF rejected THEN <<>> ELSE [i \in 1..Len(kept) |-> kept[i].rec],
      upstream |-> \E k \in 1..Len(toFetch) : fetched[k].upstream,
      path |-> "batch", fresh |-> {}, fetched |-> toFetch]

\* MarketCapService.getMarketCaps: respOf[t] is what the upstream answers for t
getMarketCaps(tickers, respOf, io) ==
  CHOOSE o \in
    UNION {UNION {UNION {{mergeResults(unique, cachedResults, toFetch, fetched) :
                            fetched \in {fetchedResults(toFetch, respOf, io)}} :
                         toFetch \in {tickersToFetch(unique, cachedResults)}} :
                  cachedResults \in
                    {getCachedMany([i \in 1..Len(unique) |-> MKey(unique[i])], io.redisUp)}} :
           unique \in {uniqueTickers(tickers)}} : TRUE

\* ------------------------------------------------------------------------
\* EarningsService (services/earningsService.ts)
\* ------------------------------------------------------------------------
CACHE_TTL_EARNINGS_HISTORICAL == 365

\* `limit` of the upstream earnings request
POLYGON_LIMIT == 1000

\* rows per transaction in storeInDatabase
BATCH_SIZE == 100

\* `query.importance === undefined`
NoImportance == -1

\* EarningsEvent.time: missing, a text marker, or a clock time "HH:MM:SS"
NoTime == [kind |-> "none"]

TimeText(text) == [kind |-> "text", text |-> text]

Clock(h, m) == [kind |-> "clock", hour |-> h, minute |-> m]

\* `time.includes(word)` over the marker texts of the model
TextsIncluding(word) ==
  IF word = "before" THEN {"before-market"}
  ELSE IF word = "after" THEN {"after-market", "time-after-hours"}
  ELSE {}

\* EarningsEvent: the properties the service looks at
Event(id, t, date, time) ==
  [id |-> id, ticker |-> t, date |-> date, time |-> time, importance |-> 3]

\* EarningsQuery: dateFrom/dateTo Absent, tickers <<>> and importance
\* NoImportance stand for a parameter that was not given
Query(dateFrom, dateTo) ==
  [dateFrom |-> dateFrom, dateTo |-> dateTo, tickers |-> <<>>,
   importance |-> NoImportance]

\* a slice that ends one element late
TakeOneMore(s, n) == SubSeq(s, 1, IF Len(s) < n + 1 THEN Len(s) ELSE n + 1)

\* Array.prototype.slice(0, n)
Take(s, n) == SubSeq(s, 1, IF Len(s) < n THEN Len(s) ELSE n)

\* Array.prototype.join(sep) of a list of strings
RECURSIVE Join(_, _)
Join(parts, sep) ==
  IF parts = <<>> THEN ""
  ELSE IF Len(parts) = 1 THEN parts[1]
  ELSE parts[1] \o sep \o Join(Tail(parts), sep)

\* a key that also carries the day of the call
createCacheKeyOfDay(query) ==
  Join(<<"earnings", "day:" \o ToString(now)>>
       \o (IF query.dateFrom # Absent
           THEN <<"from:" \o ToString(query.dateFrom)>> ELSE <<>>)
       \o (IF query.dateTo # Absent
           THEN <<"to:" \o ToString(query.dateTo)>> ELSE <<>>),
       ":")

\* EarningsService.createCacheKey
createCacheKey(query) ==
  Join(<<"earnings">>
       \o (IF query.dateFrom # Absent
           THEN <<"from:" \o ToString(query.dateFrom)>> ELSE <<>>)
       \o (IF query.dateTo # Absent
           THEN <<"to:" \o ToString(query.dateTo)>> ELSE <<>>)
       \o (IF query.tickers # <<>>
           THEN <<"tickers:" \o Join(query.tickers, ",")>> ELSE <<>>)
       \o (IF query.importance # NoImportance
           THEN <<"imp:" \o ToString(query.importance)>> ELSE <<>>),
       ":")

\* a classification that counts a range ending today as historical
isPastOrToday(query) == query.dateTo # Absent /\ query.dateTo <= now

\* `query.dateTo && new Date(query.dateTo) < now` (now = start of today)
isPastEarnings(query) == query.dateTo # Absent /\ query.dateTo < now

\* the `where` clause of fetchFromDatabase and the filter parameters sent
\* upstream (date.gte, date.lte, ticker.any_of, importance.gte)
MatchesQuery(query, e) ==
  /\ query.dateFrom # Absent => e.date >= query.dateFrom
  /\ query.dateTo # Absent => e.date <= query.dateTo
  /\ query.tickers # <<>> => \E i \in 1..Len(query.tickers) : query.tickers[i] = e.ticker
  /\ query.importance # NoImportance => e.importance >= query.importance

\* the row written by the upsert of storeInDatabase
EarningRow(e) ==
  [id |-> e.id, ticker |-> e.ticker, date |-> e.date, time |-> e.time,
   importance |-> IF e.importance = Absent THEN 0 ELSE e.importance]

\* EarningsService.dbToEarningsEvent
dbToEarningsEvent(row) ==
  [id |-> row.id, ticker |-> row.ticker, date |-> row.date, time |-> row.time,
   importance |-> row.importance]

\* `orderBy: {date: 'asc'}`; rows of one date come in id order
RECURSIVE OrderByDate(_)
OrderByDate(rows) ==
  IF rows = {} THEN <<>>
  ELSE LET first == CHOOSE r \in rows :
                      \A o \in rows :
                        r.date < o.date \/ (r.date = o.date /\ r.id <= o.id)
       IN <<first>> \o OrderByDate(rows \ {first})

\* a table query that finds no row
fetchNothingFromDatabase(query) == <<>>

\* EarningsService.fetchFromDatabase
fetchFromDatabase(query) ==
  LET found == OrderByDate({r \in earning : MatchesQuery(query, r)})
  IN [i \in 1..Len(found) |-> dbToEarningsEvent(found[i])]

\* one prisma.$transaction of upserts
UpsertEarnings(rows, batch) ==
  LET ids == {batch[i].id : i \in 1..Len(batch)}
      lastOf == {i \in 1..Len(batch) :
                  \A j \in (i + 1)..Len(batch) : batch[j].id # batch[i].id}
  IN {r \in rows : r.id \notin ids} \cup {EarningRow(batch[i]) : i \in lastOf}

\* EarningsService.getCachedMarketCaps: ticker -> market cap, Absent when the
\* table has no row or no market cap for it
getCachedMarketCaps(d) ==
  [t \in Tickers |-> IF d[t].exists /\ Truthy(d[t].vals["marketCap"])
                     THEN d[t].vals["marketCap"] ELSE Absent]

\* Array.prototype.sort with `marketCapB - marketCapA` (stable)
RECURSIVE InsertByMarketCap(_, _, _)
InsertByMarketCap(sorted, e, marketCapMap) ==
  IF sorted = <<>> THEN <<e>>
  ELSE IF marketCapMap[Head(sorted).ticker] >= marketCapMap[e.ticker]
  THEN <<Head(sorted)>> \o InsertByMarketCap(Tail(sorted), e, marketCapMap)
  ELSE <<e>> \o sorted

RECURSIVE SortByMarketCap(_, _)
SortByMarketCap(list, marketCapMap) ==
  IF list = <<>> THEN <<>>
  ELSE InsertByMarketCap(SortByMarketCap(SubSeq(list, 1, Len(list) - 1), marketCapMap),
                         list[Len(list)], marketCapMap)

\* EarningsService.filterByMarketCap: the list that is returned and the
\* tickers handed to fetchMissingMarketCaps
filterByMarketCap(earnings, d) ==
  LET marketCapMap == getCachedMarketCaps(d)
      hasMarketCap(e) == marketCapMap[e.ticker] # Absent
  IN [filtered |-> SortByMarketCap(SelectSeq(earnings, hasMarketCap), marketCapMap),
      filteredOut |-> {earnings[i].ticker : i \in {j \in 1..Len(earnings) :
                                                    ~hasMarketCap(earnings[j])}}]

\* a before-open test that counts 09:30 itself as before the open
isBeforeOpenThrough0930(e) ==
  IF e.time.kind = "none" THEN TRUE
  ELSE IF e.time.kind = "text"
  THEN e.time.text \in {"bmo", "time-pre-market"} \cup TextsIncluding("before")
  ELSE e.time.hour < 9 \/ (e.time.hour = 9 /\ e.time.minute <= 30)

\* the session tests of extractPrimaryEarnings
isBeforeOpen(e) ==
  IF e.time.kind = "none" THEN TRUE
  ELSE IF e.time.kind = "text"
  THEN e.time.text \in {"bmo", "time-pre-market"} \cup TextsIncluding("before")
  ELSE e.time.hour < 9 \/ (e.time.hour = 9 /\ e.time.minute < 30)

isAfterClose(e) ==
  IF e.time.kind = "none" THEN FALSE
  ELSE IF e.time.kind = "text"
  THEN e.time.text \in {"amc", "time-after-hours"} \cup TextsIncluding("after")
  ELSE e.time.hour >= 16

\* the keys of `byDate` in insertion order
RECURSIVE DatesOf(_)
DatesOf(earnings) ==
  IF earnings = <<>> THEN <<>>
  ELSE LET later(d) == d # Head(earnings).date
       IN <<Head(earnings).date>> \o SelectSeq(DatesOf(Tail(earnings)), later)

\* `byDate.forEach`: five of each session of each date
RECURSIVE PrimaryOfDates(_, _)
PrimaryOfDates(dates, earnings) ==
  IF dates = <<>> THEN <<>>
  ELSE LET onDate(e) == e.date = Head(dates)
           dayEarnings == SelectSeq(earnings, onDate)
           beforeOpen == SelectSeq(dayEarnings, isBeforeOpen)
           afterClose == SelectSeq(dayEarnings, isAfterClose)
       IN Take(beforeOpen, 5) \o Take(afterClose, 5)
          \o PrimaryOfDates(Tail(dates), earnings)

\* five of each session of the whole list, dates ignored
extractFiveOverall(earnings) ==
  Take(SelectSeq(earnings, isBeforeOpen), 5) \o Take(SelectSeq(earnings, isAfterClose), 5)

\* EarningsService.extractPrimaryEarnings
extractPrimaryEarnings(earnings) == PrimaryOfDates(DatesOf(earnings), earnings)

\* a filter that drops every event of a ticker that has a primary event
excludePrimaryTickers(allEarnings, primary) ==
  LET primaryTickers == {primary[i].ticker : i \in 1..Len(primary)}
      notPrimary(e) == e.ticker \notin primaryTickers
  IN SelectSeq(allEarnings, notPrimary)

\* getSecondaryEarnings: `allEarnings.filter(e => !primaryIds.has(e.id))`
excludePrimary(allEarnings, primary) ==
  LET primaryIds == {primary[i].id : i \in 1..Len(primary)}
      notPrimary(e) == e.id \notin primaryIds
  IN SelectSeq(allEarnings, notPrimary)

\* the tickers prefetch52WeekData hands to getMarketCaps: no 52-week data or
\* a row older than twelve hours
tickersNeedingData(primary, d) ==
  {t \in {primary[i].ticker : i \in 1..Len(primary)} :
     \/ ~d[t].exists
     \/ ~Truthy(d[t].vals["week52High"])
     \/ ~Truthy(d[t].vals["week52Low"])
     \/ now - d[t].updatedAt >= 1}

\* what the upstream calendar holds: ticker A reports before the open and B
\* at midday of day 1, C after the close of day 1, A again at midday of day 3
UpstreamEvents ==
  <<Event(1, "A", 1, Clock(8, 0)), Event(2, "B", 1, Clock(12, 0)),
    Event(3, "C", 1, Clock(16, 30)), Event(4, "A", 3, Clock(12, 0))>>

\* what the upstream holds after a correction: the report of A has moved
\* from day 1 to day 2
RevisedEvents ==
  <<Event(1, "A", 2, Clock(8, 0)), Event(2, "B", 1, Clock(12, 0)),
    Event(3, "C", 1, Clock(16, 30)), Event(4, "A", 3, Clock(12, 0))>>

\* the queries clients send: day 1 only (historical once day 1 is over), and
\* everything from day 1 on (never historical)
PastQueries == {Query(1, 1)}

OpenQueries == {Query(1, Absent)}

\* a range that ends today
TodayQueries == {Query(1, 2)}

Queries == PastQueries \cup OpenQueries \cup TodayQueries

\* the past range asked for one ticker only
NarrowQueries == {[Query(1, 1) EXCEPT !.tickers = <<"A">>]}

CacheKeys ==
  {FKey(t) : t \in Tickers} \cup {MKey(t) : t \in Tickers}
  \cup {LKey(t) : t \in Tickers}
  \cup {createCacheKey(q) : q \in Queries \cup NarrowQueries}

\* what a call of getEarnings leaves behind and hands to its caller:
\* store = the list given to storeInDatabase, missing = the tickers given to
\* fetchMissingMarketCaps
EarningsOutcome(r, status, data, upstream, path, store, missing) ==
  [redis |-> r, status |-> status, data |-> data, upstream |-> upstream,
   path |-> path, store |-> store, missing |-> missing]

\* a fetchFromPolygon that caches the empty list it returns when the call
\* to the upstream has failed
fetchFromPolygonCachingFailure(query, up, r, io) ==
  LET matches(e) == MatchesQuery(query, e)
      results == IF up = "ok" THEN UpstreamEvents
                 ELSE IF up = "revised" THEN RevisedEvents ELSE <<>>
      earnings == Take(SelectSeq(results, matches), POLYGON_LIMIT)
  IN [earnings |-> earnings,
      redis |-> IF isPastEarnings(query)
                THEN setCached(r, createCacheKey(query), JsonObj(earnings),
                               CACHE_TTL_EARNINGS_HISTORICAL, io.redisUp)
                ELSE r,
      store |-> earnings]

\* a fetchFromPolygon that answers from the `earning` table when the call to
\* the upstream has failed
fetchFromPolygonOrDatabase(query, up, r, io) ==
  LET matches(e) == MatchesQuery(query, e)
      results == IF up = "ok" THEN UpstreamEvents ELSE RevisedEvents
      earnings == IF up \in {"ok", "revised"}
                  THEN Take(SelectSeq(results, matches), POLYGON_LIMIT)
                  ELSE fetchFromDatabase(query)
  IN [earnings |-> earnings,
      redis |-> IF isPastEarnings(query) /\ up \in {"ok", "revised"}
                THEN setCached(r, createCacheKey(query), JsonObj(earnings),
                               CACHE_TTL_EARNINGS_HISTORICAL, io.redisUp)
                ELSE r,
      store |-> IF up \in {"ok", "revised"} THEN earnings ELSE <<>>]

\* EarningsService.fetchFromPolygon; up = "ok", "revised" (the upstream
\* answers with its corrected calendar) or "error"
fetchFromPolygon(query, up, r, io) ==
  IF up \notin {"ok", "revised"} THEN [earnings |-> <<>>, redis |-> r, store |-> <<>>]
  ELSE LET matches(e) == MatchesQuery(query, e)
           results == IF up = "ok" THEN UpstreamEvents ELSE RevisedEvents
           earnings == Take(SelectSeq(results, matches), POLYGON_LIMIT)
       IN [earnings |-> earnings,
           redis |-> IF isPastEarnings(query)
                     THEN setCached(r, createCacheKey(query), JsonObj(earnings),
                                    CACHE_TTL_EARNINGS_HISTORICAL, io.redisUp)
                     ELSE r,
           store |-> earnings]

\* a getEarnings that treats a failed table query as an empty table and goes
\* on to the upstream
getEarningsWithFallback(query, up, io) ==
  LET cacheKey == createCacheKey(query)
      past == isPastEarnings(query)
      cached == IF past THEN getCached(cacheKey, io.redisUp) ELSE JsonNull
      dbEarnings == IF past /\ io.dbUp THEN fetchFromDatabase(query) ELSE <<>>
      polygon == fetchFromPolygon(query, up, redis, io)
  IN IF past /\ IsHit(cached)
     THEN EarningsOutcome(redis, "ok", cached.val, FALSE, "cache_hit", <<>>, {})
     ELSE IF past /\ Len(dbEarnings) > 0
     THEN LET f == filterByMarketCap(dbEarnings, db)
          IN EarningsOutcome(setCached(redis, cacheKey, JsonObj(f.filtered),
                                       CACHE_TTL_EARNINGS_HISTORICAL, io.redisUp),
                             "ok", f.filtered, FALSE, "db_hit", <<>>, f.filteredOut)
     ELSE IF polygon.earnings # <<>> /\ ~io.dbUp
     THEN EarningsOutcome(polygon.redis, "error", <<>>, TRUE, "db_error",
                          polygon.store, {})
     ELSE LET f == filterByMarketCap(polygon.earnings, db)
          IN EarningsOutcome(polygon.redis, "ok", f.filtered, TRUE, "fetch",
                             polygon.store, f.filteredOut)

\* EarningsService.getEarnings
getEarnings(query, up, io) ==
  LET cacheKey == createCacheKey(query)
      past == isPastEarnings(query)
      cached == IF past THEN getCached(cacheKey, io.redisUp) ELSE JsonNull
      dbEarnings == IF past THEN fetchFromDatabase(query) ELSE <<>>
      polygon == fetchFromPolygon(query, up, redis, io)
  IN IF past /\ IsHit(cached)
     THEN EarningsOutcome(redis, "ok", cached.val, FALSE, "cache_hit", <<>>, {})
     ELSE IF past /\ ~io.dbUp
     THEN EarningsOutcome(redis, "error", <<>>, FALSE, "db_error", <<>>, {})
     ELSE IF past /\ Len(dbEarnings) > 0
     THEN LET f == filterByMarketCap(dbEarnings, db)
          IN EarningsOutcome(setCached(redis, cacheKey, JsonObj(f.filtered),
                                       CACHE_TTL_EARNINGS_HISTORICAL, io.redisUp),
                             "ok", f.filtered, FALSE, "db_hit", <<>>, f.filteredOut)
     ELSE IF polygon.earnings # <<>> /\ ~io.dbUp
     THEN EarningsOutcome(polygon.redis, "error", <<>>, TRUE, "db_error",
                          polygon.store, {})
     ELSE LET f == filterByMarketCap(polygon.earnings, db)
          IN EarningsOutcome(polygon.redis, "ok", f.filtered, TRUE, "fetch",
                             polygon.store, f.filteredOut)

\* ------------------------------------------------------------------------
\* The state machine of the reference-data services
\* ------------------------------------------------------------------------
Healthy == [dbUp |-> TRUE, dbWrite |-> TRUE, redisUp |-> TRUE]

\* no answer of getPrimaryEarnings yet; no background work
NoPrimary == [valid |-> FALSE]

NoPending == [store |-> {}, caps |-> {}]

\* the two requests that may run at the same time
Procs == {1, 2}

\* a request that has not arrived: pc = the await it stands at, existing = the
\* row it read, resp = what the upstream answered to it
IdleCall == [pc |-> "idle", service |-> "none", existing |-> NoRow, resp |-> FullResponse]

\* no request running; before = the row when the requests arrived, fetched =
\* the columns for which a request that wrote had received a value
NoRefresh == [calls |-> [p \in Procs |-> IdleCall], before |-> NoRow, fetched |-> {}]

\* what the most recent step was, in which environment it ran and what its
\* caller received
Step(op, t, o, io) ==
  [op |-> op, ticker |-> t, status |-> o.status, data |-> o.data,
   upstream |-> o.upstream, path |-> o.path, fresh |-> o.fresh, io |-> io]

Idle(op) ==
  [op |-> op, ticker |-> "", status |-> "none", data |-> <<>>,
   upstream |-> FALSE, path |-> "none", fresh |-> {}, io |-> Healthy]

Init ==
  /\ now = 0
  /\ db = [t \in Tickers |-> NoRow]
  /\ redis = [k \in CacheKeys |-> NoEntry]
  /\ last = Idle("init")
  /\ earning = {}
  /\ pending = NoPending
  /\ prim = NoPrimary
  /\ input = <<>>
  /\ refresh = NoRefresh

\* GET /api/fundamentals?ticker=T
GetFundamentals(t) ==
  \E resp \in Responses, io \in IoOutcomes :
    \E o \in {getFundamentals(t, resp, io)} :
       /\ db' = o.db
       /\ redis' = o.redis
       /\ last' = Step("getFundamentals", t, o, io)
       /\ UNCHANGED <<now, earnVars>>

\* GET /api/market-cap?ticker=T
GetMarketCap(t) ==
  \E resp \in Responses, io \in IoOutcomes :
    \E o \in {getMarketCap(t, resp, io)} :
       /\ db' = o.db
       /\ redis' = o.redis
       /\ last' = Step("getMarketCap", t, o, io)
       /\ UNCHANGED <<now, earnVars>>

\* DELETE /api/fundamentals/cache/:ticker
ClearCache(t) ==
  \E io \in IoOutcomes :
    /\ db' = clearCacheDb(db, t, io.dbUp)
    /\ redis' = clearCacheRedis(redis, t, io.redisUp)
    /\ last' = [Idle("clearCache") EXCEPT !.ticker = t, !.io = io]
    /\ UNCHANGED <<now, earnVars>>

\* time passes; Redis drops the keys whose TTL has run out
Tick ==
  /\ now + TickDays <= MaxTime
  /\ now' = now + TickDays
  /\ redis' = [k \in DOMAIN redis |->
                 IF redis[k].kind # "none" /\ redis[k].exp <= now + TickDays
                 THEN NoEntry ELSE redis[k]]
  /\ last' = Idle("tick")
  /\ UNCHANGED <<db, earnVars>>

\* FundamentalsService with its cache-invalidation endpoint
NextFundamentals ==
  \/ \E t \in RefTickers : GetFundamentals(t)
  \/ \E t \in RefTickers : ClearCache(t)
  \/ Tick

SpecFundamentals == Init /\ [][NextFundamentals]_vars

\* MarketCapService
NextMarketCap ==
  \/ \E t \in RefTickers : GetMarketCap(t)
  \/ Tick

SpecMarketCap == Init /\ [][NextMarketCap]_vars

\* both services on the one `fundamental` table, with the cache-invalidation
\* endpoint
NextInvalidate ==
  \/ \E t \in RefTickers : GetFundamentals(t)
  \/ \E t \in RefTickers : GetMarketCap(t)
  \/ \E t \in RefTickers : ClearCache(t)

SpecInvalidate == Init /\ [][NextInvalidate]_vars

\* ------------------------------------------------------------------------
\* The state machine of the calendar service
\* ------------------------------------------------------------------------
\* storeInDatabase(store) and fetchMissingMarketCaps / prefetch52WeekData
\* (caps) start work that outlives the request
Spawn(p, store, caps) ==
  [store |-> p.store \cup (IF store = <<>> THEN {} ELSE {store}),
   caps |-> p.caps \cup caps]

\* a ticker-details answer carrying market capitalisation c
ResponseWithCap(c) ==
  [FullResponse EXCEPT !.ticker.data.market_cap = c, !.ratios.data.market_cap = c]

\* what upstream can answer to a background market-cap fetch
EarnResponses == {ResponseWithCap(c) : c \in 1..MaxCap} \cup {NotFoundResponse}

\* a request of the calendar service reads only; the store is up or down
EarnIoOutcomes == {io \in IoOutcomes : io.dbUp = io.dbWrite}

EarningsStep(op, query, o, io, primary, data) ==
  [op |-> op, query |-> query, status |-> o.status, all |-> o.data,
   primary |-> primary, data |-> data, upstream |-> o.upstream,
   path |-> o.path, missing |-> o.missing, io |-> io]

InitEarnings ==
  /\ now = 2
  /\ db = [t \in Tickers |-> NoRow]
  /\ redis = [k \in CacheKeys |-> NoEntry]
  /\ last = Idle("init")
  /\ earning = {}
  /\ pending = NoPending
  /\ prim = NoPrimary
  /\ input = <<>>
  /\ refresh = NoRefresh

\* GET /api/earnings
GetEarnings(q) ==
  \E up \in {"ok", "error"}, io \in EarnIoOutcomes :
    \E o \in {getEarnings(q, up, io)} :
       /\ redis' = o.redis
       /\ pending' = Spawn(pending, o.store, o.missing)
       /\ last' = EarningsStep("getEarnings", q, o, io, <<>>, o.data)
       /\ UNCHANGED <<now, db, earning, prim, input, refresh>>

\* GET /api/earnings/primary
GetPrimaryEarnings(q) ==
  \E up \in {"ok", "error"}, io \in EarnIoOutcomes :
    \E o \in {getEarnings(q, up, io)} :
    \E primary \in {extractPrimaryEarnings(o.data)} :
    LET prefetch == IF o.status = "ok" /\ io.dbUp
                    THEN tickersNeedingData(primary, db) ELSE {}
    IN /\ redis' = o.redis
       /\ pending' = Spawn(pending, o.store, o.missing \cup prefetch)
       /\ last' = EarningsStep("getPrimaryEarnings", q, o, io, primary, primary)
       /\ prim' = IF o.status = "ok"
                  THEN [valid |-> TRUE, query |-> q, all |-> o.data,
                        data |-> primary, io |-> io]
                  ELSE prim
       /\ UNCHANGED <<now, db, earning, input, refresh>>

\* GET /api/earnings/secondary
GetSecondaryEarnings(q) ==
  \E up \in {"ok", "error"}, io \in EarnIoOutcomes :
    \E o \in {getEarnings(q, up, io)} :
    \E primary \in {extractPrimaryEarnings(o.data)} :
       /\ redis' = o.redis
       /\ pending' = Spawn(pending, o.store, o.missing)
       /\ last' = EarningsStep("getSecondaryEarnings", q, o, io, primary,
                               excludePrimary(o.data, primary))
       /\ UNCHANGED <<now, db, earning, prim, input, refresh>>

\* a background task that goes on to the next batch after a failed
\* transaction
StoreInDatabaseGoingOn ==
  \E task \in pending.store, committed \in BOOLEAN :
    LET batch == Take(task, BATCH_SIZE)
        rest == SubSeq(task, Len(batch) + 1, Len(task))
    IN /\ earning' = IF committed THEN UpsertEarnings(earning, batch) ELSE earning
       /\ pending' = [pending EXCEPT !.store =
                        (@ \ {task}) \cup (IF rest # <<>> THEN {rest} ELSE {})]
       /\ UNCHANGED <<now, db, redis, last, prim, input, refresh>>

\* the background task of storeInDatabase: one transaction per batch, the
\* first failing transaction ends the task
StoreInDatabase ==
  \E task \in pending.store, committed \in BOOLEAN :
    LET batch == Take(task, BATCH_SIZE)
        rest == SubSeq(task, Len(batch) + 1, Len(task))
    IN /\ earning' = IF committed THEN UpsertEarnings(earning, batch) ELSE earning
       /\ pending' = [pending EXCEPT !.store =
                        (@ \ {task}) \cup (IF committed /\ rest # <<>> THEN {rest} ELSE {})]
       /\ UNCHANGED <<now, db, redis, last, prim, input, refresh>>

\* the background task of fetchMissingMarketCaps and prefetch52WeekData:
\* marketCapService.getMarketCaps asks getMarketCap for each ticker
FetchMarketCapInBackground(t) ==
  /\ t \in pending.caps
  /\ \E resp \in EarnResponses :
       \E o \in {getMarketCap(t, resp, Healthy)} :
         db' = o.db /\ redis' = o.redis
  /\ pending' = [pending EXCEPT !.caps = @ \ {t}]
  /\ UNCHANGED <<now, last, earning, prim, input, refresh>>

\* clients asking for the full list of a historical range
NextHistorical ==
  \/ \E q \in PastQueries : GetEarnings(q)
  \/ StoreInDatabase
  \/ \E t \in EarnTickers : FetchMarketCapInBackground(t)

SpecHistorical == InitEarnings /\ [][NextHistorical]_vars

\* clients loading the calendar from day 1 on in two stages
NextCalendar ==
  \/ \E q \in OpenQueries : GetPrimaryEarnings(q)
  \/ \E q \in OpenQueries : GetSecondaryEarnings(q)
  \/ StoreInDatabase
  \/ \E t \in EarnTickers : FetchMarketCapInBackground(t)

SpecCalendar == InitEarnings /\ [][NextCalendar]_vars

\* clients asking for the full list of a range that has not ended
NextUpcoming ==
  \/ \E q \in OpenQueries \cup TodayQueries : GetEarnings(q)
  \/ StoreInDatabase
  \/ \E t \in EarnTickers : FetchMarketCapInBackground(t)

SpecUpcoming == InitEarnings /\ [][NextUpcoming]_vars

\* GET /api/earnings while the upstream corrects its calendar between calls
GetEarningsRevisable(q) ==
  \E up \in {"ok", "revised"} :
    \E o \in {getEarnings(q, up, Healthy)} :
       /\ redis' = o.redis
       /\ pending' = Spawn(pending, o.store, o.missing)
       /\ last' = EarningsStep("getEarnings", q, o, Healthy, <<>>, o.data)
       /\ UNCHANGED <<now, db, earning, prim, input, refresh>>

NextRevision ==
  \/ \E q \in PastQueries \cup OpenQueries : GetEarningsRevisable(q)
  \/ StoreInDatabase
  \/ \E t \in EarnTickers : FetchMarketCapInBackground(t)

SpecRevision == InitEarnings /\ [][NextRevision]_vars

\* GET /api/earnings for ranges that end yesterday, today or never, while the
\* days pass: a range that ends today is a past range after midnight
NextClassify ==
  \/ \E q \in Queries : GetEarnings(q)
  \/ StoreInDatabase
  \/ Tick

SpecClassify == InitEarnings /\ [][NextClassify]_vars

\* ------------------------------------------------------------------------
\* The batch endpoint of MarketCapService
\* ------------------------------------------------------------------------
\* the symbols clients send: "a" is "A" in lower case
BatchSymbols == {"a", "B", "C"}

\* the symbols the upstream lists; every other symbol is answered with 404
Listed == {"A", "C"}

\* the market cap the upstream reports for a listed symbol
CapOf(t) == IF t = "A" THEN 1 ELSE 2

\* what the upstream can answer for t during one batch
UpstreamAnswers(t) ==
  IF t \in Listed THEN {ResponseWithCap(CapOf(t))} ELSE {NotFoundResponse}

\* GET /api/market-cap?tickers=...
GetMarketCaps(tickers) ==
  \E respOf \in {f \in [Tickers -> UNION {UpstreamAnswers(t) : t \in Tickers}] :
                   \A t \in Tickers : f[t] \in UpstreamAnswers(t)},
     io \in IoOutcomes :
    \E o \in {getMarketCaps(tickers, respOf, io)} :
       /\ db' = o.db
       /\ redis' = o.redis
       /\ last' = [op |-> "getMarketCaps", ticker |-> "", tickers |-> tickers,
                   status |-> o.status, data |-> o.data, upstream |-> o.upstream,
                   path |-> o.path, fresh |-> o.fresh, fetched |-> o.fetched,
                   io |-> io]
       /\ UNCHANGED <<now, earnVars>>

NextBatch ==
  \E n \in 1..MaxBatch : \E tickers \in [1..n -> BatchSymbols] : GetMarketCaps(tickers)

SpecBatch == Init /\ [][NextBatch]_vars

\* ------------------------------------------------------------------------
\* Two requests for the same symbol running concurrently: one step per await
\* of getFundamentals / getMarketCap and of their fetchFromPolygon
\* ------------------------------------------------------------------------
\* the row of the symbol when the requests arrive: complete and stale, or
\* fresh without a balance sheet
PriorRows ==
  {[exists |-> TRUE, updatedAt |-> 0, vals |-> [f \in DbFields |-> 1]],
   [exists |-> TRUE, updatedAt |-> 8,
    vals |-> [f \in DbFields |-> IF f = "totalAssets" THEN Absent ELSE 1]]}

\* what the upstream answers to one of the requests
RefreshResponses ==
  {FullResponse,
   [FullResponse EXCEPT !.ticker = Failed("error", TickerFull)],
   [FullResponse EXCEPT !.income = Failed("error", IncomeFull)]}

InitRefresh ==
  /\ now = 8
  /\ \E row \in PriorRows :
       /\ db = [t \in Tickers |-> IF t \in RefTickers THEN row ELSE NoRow]
       /\ refresh = [NoRefresh EXCEPT !.before = row]
  /\ redis = [k \in CacheKeys |-> NoEntry]
  /\ last = Idle("init")
  /\ earning = {}
  /\ pending = NoPending
  /\ prim = NoPrimary
  /\ input = <<>>

\* the request p moves to the await `pc`
Goto(p, pc) == [refresh EXCEPT !.calls[p].pc = pc]

RefreshKey(c, t) == IF c.service = "fundamentals" THEN FKey(t) ELSE MKey(t)

\* a request arrives
Begin(p, t) ==
  /\ refresh.calls[p].pc = "idle"
  /\ \E service \in {"fundamentals", "marketCap"} :
       refresh' = [refresh EXCEPT !.calls[p] = [IdleCall EXCEPT !.pc = "cache",
                                                                !.service = service]]
  /\ last' = [Idle("begin") EXCEPT !.ticker = t]
  /\ UNCHANGED <<now, db, redis, earning, pending, prim, input>>

\* `await getCached(cacheKey)` and the branch on its result
CacheRead(p, t) ==
  LET c == refresh.calls[p]
      cached == getCached(RefreshKey(c, t), TRUE)
  IN /\ c.pc = "cache"
     /\ refresh' = Goto(p, IF ~IsHit(cached) THEN "store"
                           ELSE IF c.service = "fundamentals" /\ isIncompleteData(cached.val)
                           THEN "clear"
                           ELSE "done")
     /\ last' = [Idle("getCached") EXCEPT !.ticker = t]
     /\ UNCHANGED <<now, db, redis, earning, pending, prim, input>>

\* `await prisma.fundamental.findUnique(...)` and the branch on the row
StoreRead(p, t) ==
  LET c == refresh.calls[p]
      fresh == db[t].exists /\ now - db[t].updatedAt < UPDATE_THRESHOLD_FUNDAMENTALS
      next == IF c.service = "fundamentals"
              THEN IF ~fresh THEN "fetch"
                   ELSE IF isIncompleteData(dbToFundamentalsData(db[t])) THEN "clear"
                   ELSE "fill"
              ELSE IF fresh /\ Truthy(db[t].vals["marketCap"]) THEN "fill" ELSE "fetch"
  IN /\ c.pc = "store"
     /\ refresh' = [refresh EXCEPT !.calls[p].pc = next, !.calls[p].existing = db[t]]
     /\ last' = [Idle("findUnique") EXCEPT !.ticker = t]
     /\ UNCHANGED <<now, db, redis, earning, pending, prim, input>>

\* the setCached of the fresh row that was read
CacheFill(p, t) ==
  LET c == refresh.calls[p]
      data == IF c.service = "fundamentals" THEN dbToFundamentalsData(c.existing)
              ELSE dbToMarketCapData(c.existing)
  IN /\ c.pc = "fill"
     /\ redis' = setCached(redis, RefreshKey(c, t), JsonObj(data),
                           CACHE_TTL_FUNDAMENTALS, TRUE)
     /\ refresh' = Goto(p, "done")
     /\ last' = [Idle("setCached") EXCEPT !.ticker = t]
     /\ UNCHANGED <<now, db, earning, pending, prim, input>>

\* clearCache, first await: the Redis key is deleted
ClearRedis(p, t) ==
  /\ refresh.calls[p].pc = "clear"
  /\ redis' = clearCacheRedis(redis, t, TRUE)
  /\ refresh' = Goto(p, "delete")
  /\ last' = [Idle("deleteCached") EXCEPT !.ticker = t]
  /\ UNCHANGED <<now, db, earning, pending, prim, input>>

\* clearCache, second await: the row is deleted
ClearRow(p, t) ==
  /\ refresh.calls[p].pc = "delete"
  /\ db' = clearCacheDb(db, t, TRUE)
  /\ refresh' = Goto(p, "fetch")
  /\ last' = [Idle("deleteMany") EXCEPT !.ticker = t]
  /\ UNCHANGED <<now, redis, earning, pending, prim, input>>

\* the upstream calls of fetchFromPolygon have all settled
Fetch(p, t) ==
  LET c == refresh.calls[p]
  IN /\ c.pc = "fetch"
     /\ \E resp \in RefreshResponses :
          refresh' = [refresh EXCEPT
                        !.calls[p].resp = resp,
                        !.calls[p].pc =
                          IF c.service = "marketCap"
                             /\ (resp.ticker.status # "ok"
                                 \/ ~Truthy(resp.ticker.data.market_cap))
                          THEN "done" ELSE "write"]
     /\ last' = [Idle("fetchFromPolygon") EXCEPT !.ticker = t]
     /\ UNCHANGED <<now, db, redis, earning, pending, prim, input>>

\* the upsert of fetchFromPolygon reaches the table
Write(p, t) ==
  LET c == refresh.calls[p]
      updateData == FundamentalsUpdateData(FundamentalsMerged(c.resp))
  IN /\ c.pc \in {"write", "writeLast"}
     /\ db' = IF c.service = "fundamentals"
              THEN PrismaUpsert(db, t, updateData, updateData)
              ELSE PrismaUpsert(db, t, MarketCapUpdateData(c.existing, c.resp),
                                MarketCapCreateData(c.existing, c.resp))
     /\ refresh' = [refresh EXCEPT
                      !.calls[p].pc = IF c.pc = "write" THEN "cacheLast" ELSE "done",
                      !.fetched = @ \cup (IF c.service = "fundamentals"
                                          THEN FundamentalsFresh(c.resp)
                                          ELSE MarketCapFresh(c.existing, c.resp))]
     /\ last' = [Idle("upsert") EXCEPT !.ticker = t]
     /\ UNCHANGED <<now, redis, earning, pending, prim, input>>

\* the setCached of fetchFromPolygon reaches Redis: after the awaited upsert
\* in FundamentalsService, before or after the upsert in MarketCapService,
\* which awaits neither
CacheWrite(p, t) ==
  LET c == refresh.calls[p]
      data == IF c.service = "fundamentals" THEN FundamentalsMerged(c.resp)
              ELSE MarketCapDataOf(c.existing, c.resp)
  IN /\ \/ c.pc = "cacheLast"
        \/ c.pc = "write" /\ c.service = "marketCap"
     /\ redis' = setCached(redis, RefreshKey(c, t), JsonObj(data),
                           CACHE_TTL_FUNDAMENTALS, TRUE)
     /\ refresh' = Goto(p, IF c.pc = "cacheLast" THEN "done" ELSE "writeLast")
     /\ last' = [Idle("setCached") EXCEPT !.ticker = t]
     /\ UNCHANGED <<now, db, earning, pending, prim, input>>

NextRefresh ==
  \E p \in Procs, t \in RefTickers :
    \/ Begin(p, t)
    \/ CacheRead(p, t)
    \/ StoreRead(p, t)
    \/ CacheFill(p, t)
    \/ ClearRedis(p, t)
    \/ ClearRow(p, t)
    \/ Fetch(p, t)
    \/ Write(p, t)
    \/ CacheWrite(p, t)

SpecRefresh == InitRefresh /\ [][NextRefresh]_vars

\* clients asking for a past range, some for one ticker and some for all
NextNarrow ==
  \/ \E q \in PastQueries \cup NarrowQueries : GetEarnings(q)
  \/ StoreInDatabase

SpecNarrow == InitEarnings /\ [][NextNarrow]_vars

\* ------------------------------------------------------------------------
\* storeInDatabase on long lists
\* ------------------------------------------------------------------------
\* the n events of one upstream answer
LargeAnswer(n) == [i \in 1..n |-> Event(i, "A", 3, NoTime)]

\* fetchFromPolygon receives n events while the table is empty and no
\* background task runs: it hands them to storeInDatabase and returns them
FetchLarge ==
  \E n \in 1..MaxStored :
    /\ pending.store = {}
    /\ earning = {}
    /\ pending' = Spawn(pending, LargeAnswer(n), {})
    /\ last' = [op |-> "fetchFromPolygon", status |-> "ok", data |-> LargeAnswer(n)]
    /\ UNCHANGED <<now, db, redis, earning, prim, input, refresh>>

NextStore == FetchLarge \/ StoreInDatabase

SpecStore == InitEarnings /\ [][NextStore]_vars

\* ------------------------------------------------------------------------
\* The cache key as a function of the query
\* ------------------------------------------------------------------------
\* the queries whose key is asked for: every parameter present or not
KeyQueries ==
  {[dateFrom |-> f, dateTo |-> t, tickers |-> ts, importance |-> i] :
     f \in {Absent, 1}, t \in {Absent, 1, 2},
     ts \in {<<>>, <<"A">>, <<"A", "B">>, <<"B", "A">>},
     i \in {NoImportance, 0, 3}}

\* createCacheKey(query) inside a request; prim = the call before this one
CreateCacheKey ==
  \E q \in KeyQueries :
    /\ last' = [op |-> "createCacheKey", query |-> q, key |-> createCacheKey(q)]
    /\ prim' = IF last.op = "createCacheKey" THEN last ELSE prim
    /\ UNCHANGED <<now, db, redis, earning, pending, input, refresh>>

NextKey == CreateCacheKey \/ Tick

SpecKey == InitEarnings /\ [][NextKey]_vars

\* ------------------------------------------------------------------------
\* LogoService
\* ------------------------------------------------------------------------
\* the branding the upstream may hold for a ticker, one after the other
LogoUrls == {1, 2}

NoLogo == [exists |-> FALSE, iconUrl |-> Absent]

\* getCached on the Redis contents r
getCachedIn(r, key, redisUp) ==
  IF ~redisUp \/ r[key].kind # "obj" \/ now >= r[key].exp THEN JsonNull
  ELSE JsonObj(r[key].val)

\* an outcome of a logo request: the `logo` table, Redis, and what the caller
\* got
LogoOutcome(logos, r, status, data, upstream, path) ==
  [logos |-> logos, redis |-> r, status |-> status, data |-> data,
   upstream |-> upstream, path |-> path]

\* LogoService.getLogo on the table logos and the Redis contents r; url = the
\* branding the upstream holds, Absent when it does not answer with a result
getLogo(logos, r, t, url, io) ==
  LET cacheKey == LKey(t)
      cached == getCachedIn(r, cacheKey, io.redisUp)
  IN IF IsHit(cached)
     THEN LogoOutcome(logos, r, "ok", cached.val, FALSE, "cache_hit")
     ELSE IF ~io.dbUp
     THEN LogoOutcome(logos, r, "error", Absent, FALSE, "db_error")
     ELSE IF logos[t].exists
     THEN LogoOutcome(logos, setCached(r, cacheKey, JsonObj(logos[t].iconUrl),
                                       CACHE_TTL_LOGO, io.redisUp),
                      "ok", logos[t].iconUrl, FALSE, "db_hit")
     ELSE IF url = Absent \/ ~io.dbWrite
     THEN LogoOutcome(logos, r, "notfound", Absent, TRUE, "fetch")
     ELSE LogoOutcome([logos EXCEPT ![t] = [exists |-> TRUE, iconUrl |-> url]],
                      setCached(r, cacheKey, JsonObj(url), CACHE_TTL_LOGO, io.redisUp),
                      "ok", url, TRUE, "fetch")

\* LogoService.refreshLogo: setCached(cacheKey, null, 0), then getLogo
refreshLogo(logos, r, t, url, io) ==
  getLogo(logos, setCached(r, LKey(t), JsonNull, 0, io.redisUp), t, url, io)

\* the `logo` table is `input`
InitLogo ==
  /\ now = 0
  /\ db = [t \in Tickers |-> NoRow]
  /\ redis = [k \in CacheKeys |-> NoEntry]
  /\ last = Idle("init")
  /\ earning = {}
  /\ pending = NoPending
  /\ prim = NoPrimary
  /\ refresh = NoRefresh
  /\ input = [t \in RefTickers |-> NoLogo]

LogoStep(op, t, o, io) ==
  [op |-> op, ticker |-> t, status |-> o.status, data |-> o.data,
   upstream |-> o.upstream, path |-> o.path, io |-> io]

\* GET /api/logos/:ticker
GetLogo(t) ==
  \E url \in LogoUrls \cup {Absent}, io \in IoOutcomes :
    \E o \in {getLogo(input, redis, t, url, io)} :
       /\ input' = o.logos
       /\ redis' = o.redis
       /\ last' = LogoStep("getLogo", t, o, io)
       /\ UNCHANGED <<now, db, earning, pending, prim, refresh>>

\* POST /api/logos/:ticker/refresh
RefreshLogo(t) ==
  \E url \in LogoUrls \cup {Absent}, io \in IoOutcomes :
    \E o \in {refreshLogo(input, redis, t, url, io)} :
       /\ input' = o.logos
       /\ redis' = o.redis
       /\ last' = LogoStep("refreshLogo", t, o, io)
       /\ UNCHANGED <<now, db, earning, pending, prim, refresh>>

NextLogo ==
  \/ \E t \in RefTickers : GetLogo(t)
  \/ \E t \in RefTickers : RefreshLogo(t)
  \/ Tick

SpecLogo == InitLogo /\ [][NextLogo]_vars

\* ------------------------------------------------------------------------
\* The income statement and the margins in MarketCapService.fetchFromPolygon
\* ------------------------------------------------------------------------
\* the income columns of a `fundamental` row
IncomeFigures == {"revenue", "netIncome", "operatingIncome", "grossProfit"}

MarginNames == {"profitMargin", "operatingMargin", "grossMargin"}

\* the figure a margin divides by the revenue
Numerator(m) ==
  CASE m = "profitMargin" -> "netIncome"
    [] m = "operatingMargin" -> "operatingIncome"
    [] m = "grossMargin" -> "grossProfit"

\* the property of the upstream's income statement a figure is read from
IncomeProperty(f) ==
  CASE f = "revenue" -> "revenue"
    [] f = "netIncome" -> "consolidated_net_income_loss"
    [] f = "operatingIncome" -> "operating_income"
    [] f = "grossProfit" -> "gross_profit"

NoIncomeRow ==
  [exists |-> FALSE, vals |-> [f \in IncomeFigures \cup MarginNames |-> Absent]]

\* an income statement of the upstream: every property is a figure up to
\* MaxFigure or missing
IncomeStatements ==
  [{IncomeProperty(f) : f \in IncomeFigures} -> {Absent} \cup 1..MaxFigure]

\* the answers to the income-statement call: an error or empty result, or a
\* statement
IncomeAnswers ==
  {Failed("error", [p \in {IncomeProperty(f) : f \in IncomeFigures} |-> Absent])}
  \cup {Ok(st) : st \in IncomeStatements}

\* `(figure / revenue) * 100`
Percent(figure, revenue) == (figure * 100) \div revenue

\* a fetchFromPolygon that recalculates the margins from whatever figures it
\* holds, fetched or stored
MarginLocalsFromAnyFigures(existing, income) ==
  LET incomeUsed == needsIncomeStatement(existing) /\ income.status = "ok"
      figure(f) == IF incomeUsed THEN income.data[IncomeProperty(f)]
                   ELSE Existing(existing, f)
      revenue == figure("revenue")
  IN [f \in IncomeFigures \cup MarginNames |->
        IF f \in IncomeFigures THEN figure(f)
        ELSE IF Truthy(revenue) /\ revenue > 0 /\ figure(Numerator(f)) # Absent
        THEN Percent(figure(Numerator(f)), revenue)
        ELSE Existing(existing, f)]

\* the income figures and the margins of fetchFromPolygon: the stored value
\* unless the statement was asked for and answered; a margin is recalculated
\* under `needsIncomeStatement && revenue && revenue > 0` when its numerator
\* is defined
MarginLocals(existing, income) ==
  LET incomeUsed == needsIncomeStatement(existing) /\ income.status = "ok"
      figure(f) == IF incomeUsed THEN income.data[IncomeProperty(f)]
                   ELSE Existing(existing, f)
      revenue == figure("revenue")
  IN [f \in IncomeFigures \cup MarginNames |->
        IF f \in IncomeFigures THEN figure(f)
        ELSE IF /\ needsIncomeStatement(existing)
                /\ Truthy(revenue) /\ revenue > 0
                /\ figure(Numerator(f)) # Absent
        THEN Percent(figure(Numerator(f)), revenue)
        ELSE Existing(existing, f)]

\* the upsert of fetchFromPolygon on the income columns: an undefined value
\* leaves the column as it is
MarginUpsert(existing, loc) ==
  [exists |-> TRUE,
   vals |-> [f \in IncomeFigures \cup MarginNames |->
               IF loc[f] # Absent THEN loc[f] ELSE existing.vals[f]]]

\* the row of one ticker, `input`, through its refresh cycles
InitMargins ==
  /\ now = 0
  /\ db = [t \in Tickers |-> NoRow]
  /\ redis = [k \in CacheKeys |-> NoEntry]
  /\ last = Idle("init")
  /\ earning = {}
  /\ pending = NoPending
  /\ prim = NoPrimary
  /\ refresh = NoRefresh
  /\ input = NoIncomeRow

\* one refresh cycle: existing = the row it found, income = the answer to the
\* income-statement call (not looked at when the call is not made), fetched =
\* the statement was asked for and answered
RefreshMargins ==
  \E income \in IncomeAnswers :
    /\ input' = MarginUpsert(input, MarginLocals(input, income))
    /\ last' = [op |-> "fetchFromPolygon", existing |-> input, income |-> income.data,
                fetched |-> (needsIncomeStatement(input) /\ income.status = "ok")]
    /\ UNCHANGED <<now, db, redis, earning, pending, prim, refresh>>

\* DELETE /api/fundamentals/cache/:ticker removes the row
DeleteRow ==
  /\ input.exists
  /\ input' = NoIncomeRow
  /\ last' = Idle("clearCache")
  /\ UNCHANGED <<now, db, redis, earning, pending, prim, refresh>>

NextMargins == RefreshMargins \/ DeleteRow

SpecMargins == InitMargins /\ [][NextMargins]_vars

\* ------------------------------------------------------------------------
\* The primary/secondary split as a function of the event list
\* ------------------------------------------------------------------------
\* date and time of an event of a generated list: before the open, after the
\* close and at midday of day 1, before the open of day 2
SplitSlots ==
  {[date |-> 1, time |-> NoTime], [date |-> 1, time |-> TimeText("amc")],
   [date |-> 1, time |-> Clock(12, 0)], [date |-> 2, time |-> Clock(9, 15)]}

SplitTicker(i) == IF i % 2 = 1 THEN "A" ELSE "B"

\* twelve events of one date: seven before the open, five after the close
ExampleTwelve ==
  [i \in 1..12 |->
     Event(i, SplitTicker(i), 1, IF i <= 7 THEN TimeText("bmo") ELSE TimeText("amc"))]

\* the list whose i-th event has the date and time of slots[i]
SplitInput(slots) ==
  [i \in 1..Len(slots) |-> Event(i, SplitTicker(i), slots[i].date, slots[i].time)]

InitSplit ==
  /\ now = 0
  /\ db = [t \in Tickers |-> NoRow]
  /\ redis = [k \in CacheKeys |-> NoEntry]
  /\ last = Idle("init")
  /\ earning = {}
  /\ pending = NoPending
  /\ prim = NoPrimary
  /\ refresh = NoRefresh
  /\ \/ \E n \in 0..MaxEvents : \E slots \in [1..n -> SplitSlots] :
          input = SplitInput(slots)
     \/ input = ExampleTwelve

SplitResult(op, data) == [Idle(op) EXCEPT !.status = "ok", !.data = data]

\* extractPrimaryEarnings applied to the list
ExtractPrimary ==
  /\ last' = SplitResult("extractPrimaryEarnings", extractPrimaryEarnings(input))
  /\ UNCHANGED <<now, db, redis, earning, pending, prim, input, refresh>>

\* the filter of getSecondaryEarnings applied to the list
ExtractSecondary ==
  /\ last' = SplitResult("excludePrimary",
                         excludePrimary(input, extractPrimaryEarnings(input)))
  /\ UNCHANGED <<now, db, redis, earning, pending, prim, input, refresh>>

NextSplit == ExtractPrimary \/ ExtractSecondary

SpecSplit == InitSplit /\ [][NextSplit]_vars

\* disclosure times around the session boundaries: none, the two markers,
\* and clock times just before and at 09:30, at midday, just before and at
\* 16:00
SessionTimes ==
  {NoTime, TimeText("bmo"), TimeText("amc"), Clock(9, 29), Clock(9, 30),
   Clock(12, 0), Clock(15, 59), Clock(16, 0)}

\* short lists of events of one date with times around the boundaries
InitSession ==
  /\ now = 0
  /\ db = [t \in Tickers |-> NoRow]
  /\ redis = [k \in CacheKeys |-> NoEntry]
  /\ last = Idle("init")
  /\ earning = {}
  /\ pending = NoPending
  /\ prim = NoPrimary
  /\ refresh = NoRefresh
  /\ \E n \in 0..MaxSessionEvents : \E times \in [1..n -> SessionTimes] :
       input = [i \in 1..n |-> Event(i, SplitTicker(i), 1, times[i])]

SpecSession == InitSession /\ [][NextSplit]_vars

\* ------------------------------------------------------------------------
\* Claims about the reference-data services
\* ------------------------------------------------------------------------
\* the property of FundamentalsData that carries column f of the table
DataName(f) ==
  CASE f = "companyName" -> "name"
    [] f = "week52High" -> "fiftyTwoWeekHigh"
    [] f = "week52Low" -> "fiftyTwoWeekLow"
    [] OTHER -> f

HealthyStep(l, op) == l.op = op /\ l.io = Healthy

\* C1: whenever a refresh by getFundamentals finds a stored record R and
\* returns a record, every column that R held a value for and for which the
\* refresh received no value still has a value in the returned record and in
\* the record persisted by that refresh.
C1_MergeKeepsPriorValues ==
  [][\A t \in RefTickers :
       (/\ HealthyStep(last', "getFundamentals")
        /\ last'.ticker = t
        /\ last'.upstream
        /\ last'.status = "ok"
        /\ db[t].exists)
       => \A f \in DbFields :
            (Truthy(db[t].vals[f]) /\ f \notin last'.fresh)
            => (/\ last'.data[DataName(f)] # Absent
                /\ db'[t].exists
                /\ Truthy(db'[t].vals[f]))]_vars

\* C2: a row of the fundamental table disappears only in a step of the
\* cache-invalidation endpoint, never in a read.
C2_RowDeletedOnlyByInvalidation ==
  [][\A t \in RefTickers :
       (db[t].exists /\ ~db'[t].exists) => last'.op = "clearCache"]_vars

\* C3: a getFundamentals call that directly follows a getFundamentals call
\* for the same symbol (store and cache both available) returns the same
\* answer, from the cache and without an upstream call.
C3_SecondCallServedFromCache ==
  [][(/\ HealthyStep(last, "getFundamentals")
      /\ HealthyStep(last', "getFundamentals")
      /\ last'.ticker = last.ticker)
     => (/\ last'.status = last.status
         /\ last'.data = last.data
         /\ last'.path = "cache_hit"
         /\ ~last'.upstream)]_vars

\* C4: a cached reference record expires no later than the moment the
\* stored record it was taken from reaches the staleness threshold.
C4_CacheExpiresBeforeStale ==
  \A t \in RefTickers :
    (redis[FKey(t)].kind = "obj" /\ db[t].exists)
    => redis[FKey(t)].exp <= db[t].updatedAt + UPDATE_THRESHOLD_FUNDAMENTALS

\* C5: while a negative result cached for a symbol has not expired,
\* getMarketCap answers NotFound for it without calling the upstream.
C5_NegativeResultServedFromCache ==
  [][\A t \in RefTickers :
       (/\ redis[MKey(t)].kind = "null"
        /\ now < redis[MKey(t)].exp
        /\ HealthyStep(last', "getMarketCap")
        /\ last'.ticker = t)
       => (last'.status = "notfound" /\ ~last'.upstream)]_vars

\* the record that a getFundamentals call reads: the cached one, else the
\* stored one when it is younger than the staleness threshold
ReadsRecord(t) ==
  RedisGet(FKey(t)).kind = "obj"
  \/ (db[t].exists /\ now - db[t].updatedAt < UPDATE_THRESHOLD_FUNDAMENTALS)

RecordRead(t) ==
  IF RedisGet(FKey(t)).kind = "obj" THEN RedisGet(FKey(t)).val
  ELSE dbToFundamentalsData(db[t])

\* the seven fields of the completeness predicate as specified
SevenFields ==
  {"exchange", "sector", "industry", "marketCap", "currentPrice", "revenue",
   "operatingCashFlow"}

\* C6 as stated: a record read by getFundamentals is re-fetched exactly when
\* one of the seven specified fields is absent.
C6_RefetchIffOneOfSevenAbsent ==
  [][\A t \in RefTickers :
       (HealthyStep(last', "getFundamentals") /\ last'.ticker = t /\ ReadsRecord(t))
       => (last'.upstream <=> \E f \in SevenFields : RecordRead(t)[f] = Absent)]_vars

\* C6 amended: a cached or fresh stored record read by getFundamentals is
\* re-fetched from the upstream exactly when one of exchange, sector,
\* industry, market cap, current price, total assets, revenue or operating
\* cash flow is absent (or zero, or empty), whatever its age.
C6_RefetchIffOneOfEightAbsent ==
  [][\A t \in RefTickers :
       (HealthyStep(last', "getFundamentals") /\ last'.ticker = t /\ ReadsRecord(t))
       => (last'.upstream <=>
             \/ ~Truthy(RecordRead(t)["exchange"])
             \/ ~Truthy(RecordRead(t)["sector"])
             \/ ~Truthy(RecordRead(t)["industry"])
             \/ ~Truthy(RecordRead(t)["marketCap"])
             \/ ~Truthy(RecordRead(t)["currentPrice"])
             \/ ~Truthy(RecordRead(t)["totalAssets"])
             \/ ~Truthy(RecordRead(t)["revenue"])
             \/ ~Truthy(RecordRead(t)["operatingCashFlow"]))]_vars

\* a fresh stored record that lacks a field was read and re-fetched
C6_Witness ==
  /\ HealthyStep(last, "getFundamentals")
  /\ last.path = "db_incomplete"
  /\ last.upstream
  /\ now < UPDATE_THRESHOLD_FUNDAMENTALS

\* ------------------------------------------------------------------------
\* Claims about the calendar service
\* ------------------------------------------------------------------------
\* the `fundamental` table knows a market capitalisation of ticker t
HasMarketCap(t) == db[t].exists /\ db[t].vals["marketCap"] > 0

\* a call of the service that ran with store and cache up and answered
AnsweredStep(l, op) == HealthyStep(l, op) /\ l.status = "ok"

\* C7: every list getEarnings returns, from the cache, from the table or from
\* upstream, holds only events of tickers whose market capitalisation is
\* known to the `fundamental` table at the time of the call
C7_OnlyTickersWithMarketCap ==
  [][AnsweredStep(last', "getEarnings") =>
       \A i \in 1..Len(last'.data) : HasMarketCap(last'.data[i].ticker)]_vars

\* C8: every list getEarnings returns is in order of non-increasing market
\* capitalisation: no event of a smaller company precedes an event of a
\* larger one, whichever path produced the list
C8_OrderedByMarketCap ==
  [][AnsweredStep(last', "getEarnings") =>
       \A i, j \in 1..Len(last'.data) :
         (/\ i < j
          /\ HasMarketCap(last'.data[i].ticker)
          /\ HasMarketCap(last'.data[j].ticker)) =>
         db[last'.data[i].ticker].vals["marketCap"]
           >= db[last'.data[j].ticker].vals["marketCap"]]_vars

\* the events of a list that fall on date d into session s, in list order
SessionEvents(list, d, s) ==
  LET inSession(e) ==
        e.date = d /\ (IF s = "before" THEN isBeforeOpen(e) ELSE isAfterClose(e))
  IN SelectSeq(list, inSession)

DatesIn(list) == {list[i].date : i \in 1..Len(list)}

\* C9: for each date and each of the two sessions the primary events are
\* exactly the first min(5, n) of the n events of that date and session, in
\* list order, and nothing else is primary; seven before-market and five
\* after-market events of one date give ten primary events
C9_FirstFivePerSession ==
  last.op = "extractPrimaryEarnings" =>
    /\ \A d \in DatesIn(input) \cup DatesIn(last.data) :
         \A s \in {"before", "after"} :
           LET n == Len(SessionEvents(input, d, s))
           IN SessionEvents(last.data, d, s)
                = SubSeq(SessionEvents(input, d, s), 1, IF n < 5 THEN n ELSE 5)
    /\ \A i \in 1..Len(last.data) :
         isBeforeOpen(last.data[i]) \/ isAfterClose(last.data[i])
    /\ input = ExampleTwelve => Len(last.data) = 10

\* the twelve-event example went through the split and gave ten events
C9_Witness ==
  /\ last.op = "extractPrimaryEarnings"
  /\ input = ExampleTwelve
  /\ Len(SessionEvents(input, 1, "before")) = 7
  /\ Len(last.data) = 10

\* how often the event with this id occurs in a list
Occurrences(id, list) == Cardinality({i \in 1..Len(list) : list[i].id = id})

\* primary and secondary are disjoint and together hold each event of the
\* full list exactly once, and nothing else
SplitsExactly(all, primary, secondary) ==
  /\ \A i \in 1..Len(all) :
       Occurrences(all[i].id, primary) + Occurrences(all[i].id, secondary) = 1
  /\ \A i \in 1..Len(primary) : \E j \in 1..Len(all) : all[j] = primary[i]
  /\ \A i \in 1..Len(secondary) : \E j \in 1..Len(all) : all[j] = secondary[i]

NeitherSession(e) ==
  /\ e.time.kind = "clock"
  /\ e.time.hour * 60 + e.time.minute >= 9 * 60 + 30
  /\ e.time.hour * 60 + e.time.minute < 16 * 60

InList(e, list) == \E i \in 1..Len(list) : list[i] = e

\* C11 as stated: an event that matches neither session rule is in neither
\* the primary nor the secondary result
C11_NeitherSessionInNoResult ==
  last.op \in {"extractPrimaryEarnings", "excludePrimary"} =>
    \A i \in 1..Len(input) : NeitherSession(input[i]) => ~InList(input[i], last.data)

\* C11 amended: an event that matches neither session rule is never in the
\* primary result and always in the secondary result
C11_NeitherSessionIsSecondary ==
  /\ last.op = "extractPrimaryEarnings" =>
       \A i \in 1..Len(input) : NeitherSession(input[i]) => ~InList(input[i], last.data)
  /\ last.op = "excludePrimary" =>
       \A i \in 1..Len(input) : NeitherSession(input[i]) => InList(input[i], last.data)

\* an event disclosed at 09:30 sharp went through the secondary filter
C11_Witness ==
  /\ last.op = "excludePrimary"
  /\ \E i \in 1..Len(input) : input[i].time = Clock(9, 30) /\ InList(input[i], last.data)

\* the rows of the `earning` table that a query selects
RowsFor(q) == {r \in earning : MatchesQuery(q, r)}

\* a historical query that finds no cache entry but rows in the table
StoreCanServe(q) ==
  /\ q.dateTo # Absent /\ q.dateTo < now
  /\ RedisGet(createCacheKey(q)).kind = "none"
  /\ RowsFor(q) # {}

\* a step of a request, not of a background task: background tasks take
\* their work out of `pending`, requests only add to it
RequestStep ==
  pending.store \subseteq pending'.store /\ pending.caps \subseteq pending'.caps

C13_SecondHistoricalCallFromCache ==
  [][(/\ RequestStep
      /\ AnsweredStep(last, "getEarnings")
      /\ last.path = "db_hit"
      /\ last'.op = "getEarnings"
      /\ last'.query = last.query
      /\ last'.io.redisUp) =>
       /\ last'.status = "ok"
       /\ last'.path = "cache_hit"
       /\ ~last'.upstream
       /\ last'.data = last.data
       /\ Len(last.data) <= Cardinality(RowsFor(last.query))]_vars

\* three rows of day 1, all with market cap, came back from Redis in market-cap
\* order (C first), the order only the store path produces
C13_Witness ==
  /\ AnsweredStep(last, "getEarnings")
  /\ last.path = "cache_hit"
  /\ Cardinality(RowsFor(last.query)) = 3
  /\ Len(last.data) = 3
  /\ last.data[1].ticker = "C"

\* a range without end or with an end not before today
CurrentOrFuture(q) == q.dateTo = Absent \/ q.dateTo >= now

RequestedListed(tickers) ==
  {t \in Listed : \E i \in 1..Len(tickers) : tickers[i] = t \/ toUpperCase(tickers[i]) = t}

\* C15: while the table can be read, getMarketCaps on a list that mixes listed
\* and unlisted symbols raises no error and returns exactly one record per
\* listed symbol of the list, each with the ticker and the market cap of the
\* symbol it was fetched or cached for, and nothing for the other symbols
C15_BatchReturnsOneRecordPerListedSymbol ==
  [][(last'.op = "getMarketCaps" /\ last'.io.dbUp) =>
       /\ last'.status = "ok"
       /\ \A t \in RequestedListed(last'.tickers) :
            Cardinality({i \in 1..Len(last'.data) : last'.data[i].ticker = t}) = 1
       /\ \A i \in 1..Len(last'.data) :
            /\ last'.data[i].ticker \in RequestedListed(last'.tickers)
            /\ last'.data[i].data["marketCap"] = CapOf(last'.data[i].ticker)]_vars

\* a batch of an unlisted symbol and a listed one, both fetched, answered
\* with the record of the listed one
C15_Witness ==
  /\ last.op = "getMarketCaps"
  /\ last.io = Healthy
  /\ last.status = "ok"
  /\ last.tickers = <<"B", "a">>
  /\ last.fetched = <<"B", "A">>
  /\ Len(last.data) = 1
  /\ last.data[1].ticker = "A"

\* a batch of a cached symbol and a fetched one: two records in the order
\* of the request
C15_WitnessCachedAndFetched ==
  /\ last.op = "getMarketCaps"
  /\ last.status = "ok"
  /\ last.tickers = <<"C", "a">>
  /\ last.fetched = <<"A">>
  /\ Len(last.data) = 2
  /\ last.data[1].ticker = "C"
  /\ last.data[2].ticker = "A"

\* ------------------------------------------------------------------------
\* Claims about concurrent refreshes (SpecRefresh)
\* ------------------------------------------------------------------------
\* both requests have run to their end
AllSettled == \A p \in Procs : refresh.calls[p].pc = "done"

\* C16: once two concurrent requests for the same symbol have settled,
\* whatever the interleaving of their reads, fetches and writes, every column
\* that held a value before holds the same value, unless a request that wrote
\* had received a value for that column from the upstream
C16_NoWriterErasesUnfetchedField ==
  AllSettled =>
    \A t \in RefTickers : \A f \in DbFields :
      Truthy(refresh.before.vals[f]) =>
        \/ db[t].exists /\ db[t].vals[f] = refresh.before.vals[f]
        \/ f \in refresh.fetched

\* ------------------------------------------------------------------------
\* Claims about the store as the system of record
\* ------------------------------------------------------------------------
\* the record cached under the market-cap key of t is the one of the row of t
ReferenceRecordStored(t) ==
  RedisGet(MKey(t)).kind = "obj" =>
    /\ db[t].exists
    /\ db[t].vals["marketCap"] = RedisGet(MKey(t)).val["marketCap"]

\* every event of the list cached for q has its row in the `earning` table
EventListStored(q) ==
  RedisGet(createCacheKey(q)).kind = "obj" =>
    \A i \in 1..Len(RedisGet(createCacheKey(q)).val) :
      EarningRow(RedisGet(createCacheKey(q)).val[i]) \in earning

\* C17: once the background writes have settled, whatever Redis holds, a
\* market-cap record or an event list, is held in the tables as well
C17_NothingOnlyInCache ==
  (pending.store = {} /\ pending.caps = {}) =>
    /\ \A t \in Tickers : ReferenceRecordStored(t)
    /\ \A q \in Queries : EventListStored(q)

\* ------------------------------------------------------------------------
\* Claims about failures
\* ------------------------------------------------------------------------
\* C18: a getFundamentals request that fetched from the upstream while the
\* upsert or the Redis write failed still answers with the fetched record
C18_PersistFailureNotSurfaced ==
  [][(/\ last'.op = "getFundamentals"
      /\ last'.upstream
      /\ (~last'.io.dbWrite \/ ~last'.io.redisUp)) =>
       last'.status = "ok"]_vars

\* the columns each of the six sub-fetches supplies (marketCap comes with two
\* of them)
Categories ==
  {{"companyName", "exchange", "sector", "industry"},
   {"currentPrice", "priceToEarnings"},
   {"revenue", "netIncome", "profitMargin"},
   {"totalAssets"}, {"operatingCashFlow"}, {"week52High", "week52Low"}}

\* the sub-fetches of the step l that supplied nothing
FailedCategories(l) == {c \in Categories : c \cap l.fresh = {}}

\* the value the caller saw for column f before the refresh
PriorValue(t, f) ==
  IF db[t].exists THEN dbToFundamentalsData(db[t])[DataName(f)] ELSE Absent

\* C19: when exactly one of the sub-fetches of a refresh by getFundamentals
\* fails, the request still answers, the record carries the values of the
\* other sub-fetches, and the columns of the failed one have the values they
\* had before
C19_FailedCategoryKeepsPriorValues ==
  [][\A t \in RefTickers :
       (/\ HealthyStep(last', "getFundamentals")
        /\ last'.ticker = t
        /\ last'.upstream
        /\ Cardinality(FailedCategories(last')) = 1)
       => /\ last'.status = "ok"
          /\ \A f \in last'.fresh : last'.data[DataName(f)] # Absent
          /\ \A c \in FailedCategories(last') : \A f \in c :
               last'.data[DataName(f)] = PriorValue(t, f)]_vars

\* C20: getMarketCap answers without a record only when the table held no
\* row of the symbol before the request: with a stored row, a refresh whose
\* ticker-details fetch fails still answers with a record
C20_NoRecordOnlyWithoutStoredRow ==
  [][\A t \in RefTickers :
       (/\ HealthyStep(last', "getMarketCap")
        /\ last'.ticker = t
        /\ last'.status # "ok")
       => ~db[t].exists]_vars

\* C21: a getFundamentals request to which the upstream supplies nothing
\* answers without a record, and leaves no row and no cached record that
\* carries nothing beyond the ticker
C21_NoDataYieldsNoRecord ==
  [][\A t \in RefTickers :
       (/\ HealthyStep(last', "getFundamentals")
        /\ last'.ticker = t
        /\ last'.upstream
        /\ last'.fresh = {})
       => /\ last'.status # "ok"
          /\ ~(db'[t].exists /\ \A f \in DbFields : ~Truthy(db'[t].vals[f]))
          /\ ~(redis'[FKey(t)].kind = "obj"
               /\ \A f \in DataFields : ~Truthy(redis'[FKey(t)].val[f]))]_vars

\* ------------------------------------------------------------------------
\* Claims about stored calendar events
\* ------------------------------------------------------------------------
\* C22: a row of the earning table whose date is before today is never
\* changed or removed by a later step
C22_HistoricalRowsNeverChange ==
  [][\A r \in earning : r.date < now => r \in earning']_vars

\* ------------------------------------------------------------------------
\* Claims about an unavailable cache or store
\* ------------------------------------------------------------------------
\* the step l ran while Redis or the database did not answer
TierDown(l) == ~l.io.redisUp \/ ~l.io.dbUp

\* C23: getMarketCap, and getEarnings on a range that is not historical, do
\* not fail because Redis or the database is down: the lookup that failed
\* counts as a miss and the request goes on to the next tier
C23_UnavailableTierIsAMiss ==
  [][/\ (last'.op = "getMarketCap" /\ TierDown(last')) =>
          /\ last'.status # "error"
          /\ (~last'.io.redisUp => last'.path # "cache_hit")
          /\ ((~last'.io.dbUp /\ last'.path # "cache_hit") => last'.upstream)
     /\ (/\ last'.op = "getEarnings"
         /\ RequestStep
         /\ TierDown(last')
         /\ CurrentOrFuture(last'.query)) =>
          /\ last'.status # "error"
          /\ last'.upstream]_vars

\* a range with an end before today
Historical(q) == q.dateTo # Absent /\ q.dateTo < now

\* C24: a getEarnings call for a historical range that misses Redis while the
\* query of the earning table fails answers with an error, calls no
\* upstream, writes nothing to Redis and starts no background work
C24_StoreFailureOnHistoricalQueryPropagates ==
  [][(/\ RequestStep
      /\ last'.op = "getEarnings"
      /\ Historical(last'.query)
      /\ ~last'.io.dbUp
      /\ (~last'.io.redisUp \/ RedisGet(createCacheKey(last'.query)).kind # "obj"))
     => /\ last'.status = "error"
        /\ ~last'.upstream
        /\ last'.data = <<>>
        /\ redis' = redis
        /\ pending' = pending]_vars

\* a historical query failed on the table although the table holds its rows
C24_Witness ==
  /\ last.op = "getEarnings"
  /\ Historical(last.query)
  /\ ~last.io.dbUp
  /\ last.status = "error"
  /\ last.path = "db_error"
  /\ ~last.upstream
  /\ RowsFor(last.query) # {}

\* ------------------------------------------------------------------------
\* Claims about the market-cap filter over time
\* ------------------------------------------------------------------------
\* C25: an answered getEarnings call hands every ticker it dropped to the
\* background market-cap fetch, and once such a fetch has stored a market cap
\* for a ticker (the only way a market cap gets stored here), a later call
\* answered from Redis or from the table includes the stored events of that
\* ticker
C25_DroppedTickerReturnsAfterBackgroundFetch ==
  [][(RequestStep /\ AnsweredStep(last', "getEarnings")) =>
       /\ last'.missing \subseteq pending'.caps
       /\ last'.path \in {"cache_hit", "db_hit"} =>
            \A r \in RowsFor(last'.query) :
              HasMarketCap(r.ticker) => InList(dbToEarningsEvent(r), last'.data)]_vars

\* the list of a query is in Redis or its rows are in the `earning` table
CanBeServedLocally(q) ==
  IsHit(getCached(createCacheKey(q), TRUE)) \/ RowsFor(q) # {}

\* C26: getEarnings handles a query as historical (it answers from Redis or
\* from the table when one of them holds the range, and it caches what it
\* returns) exactly when the query has a dateTo and that date is before the
\* start of today; any other query goes to the upstream, is never answered
\* from Redis or the table and leaves Redis as it is
C26_HistoricalExactlyWhenUpperBoundBeforeToday ==
  [][(RequestStep /\ HealthyStep(last', "getEarnings")) =>
       LET q == last'.query
           before == q.dateTo # Absent /\ q.dateTo < now
       IN /\ (before /\ CanBeServedLocally(q)) =>
               (last'.path \in {"cache_hit", "db_hit"} /\ ~last'.upstream)
          /\ ~before =>
               (last'.path = "fetch" /\ last'.upstream /\ redis' = redis)
          /\ (last'.path \in {"cache_hit", "db_hit"} \/ redis' # redis) => before]_vars

\* a range that ended on the day of an earlier call is answered from the
\* table once that day is over
C26_Witness ==
  /\ HealthyStep(last, "getEarnings")
  /\ last.query \in TodayQueries
  /\ last.query.dateTo < now
  /\ last.path = "db_hit"

\* a range that ends today goes to the upstream although its rows are stored
C26_WitnessToday ==
  /\ HealthyStep(last, "getEarnings")
  /\ last.query \in TodayQueries
  /\ last.query.dateTo = now
  /\ RowsFor(last.query) # {}
  /\ last.path = "fetch"

\* ------------------------------------------------------------------------
\* Claims about the upstream calls of a refresh
\* ------------------------------------------------------------------------
\* the columns an endpoint supplies
CategoryFields(e) ==
  CASE e = "ticker" -> {"marketCap", "companyName", "sector", "industry", "exchange"}
    [] e = "ratios" -> {"priceToEarnings"}
    [] e = "income" -> {"revenue", "netIncome", "profitMargin"}
    [] e = "cashFlow" -> {"operatingCashFlow"}
    [] e = "balance" -> {"totalAssets"}
    [] e = "aggs" -> {"week52High", "week52Low"}

\* the row holds a value in every column of the endpoint
CategoryStored(existing, e) ==
  existing.exists /\ \A f \in CategoryFields(e) : existing.vals[f] # Absent

\* a getMarketCap that went to the upstream
MarketCapRefresh(l) == l.op = "getMarketCap" /\ l.upstream

Recalculated(m) ==
  /\ last.income["revenue"] # Absent
  /\ last.income[IncomeProperty(Numerator(m))] # Absent
  /\ input.vals[m] = Percent(last.income[IncomeProperty(Numerator(m))],
                             last.income["revenue"])

\* the stored margin m is the one the cycle found
CarriedOver(m) == input.vals[m] = last.existing.vals[m]

\* C28 as stated: after a refresh cycle each of the three margins is the one
\* calculated from this cycle's income statement when the statement was
\* fetched in the cycle, and the one stored before when it was not
C28_MarginsRecalculatedIffIncomeFetched ==
  last.op = "fetchFromPolygon" =>
    \A m \in MarginNames :
      IF last.fetched THEN Recalculated(m) ELSE CarriedOver(m)

\* the statement of this cycle has what margin m is calculated from
Calculable(m) ==
  last.income["revenue"] # Absent /\ last.income[IncomeProperty(Numerator(m))] # Absent

\* C28 amended: after a refresh cycle a margin is the one calculated from this
\* cycle's income statement when the statement was fetched in the cycle and
\* carries a revenue and the margin's numerator; in every other case it is the
\* one stored before
C28_MarginRecalculatedIffFetchedAndCalculable ==
  last.op = "fetchFromPolygon" =>
    \A m \in MarginNames :
      IF last.fetched /\ Calculable(m) THEN Recalculated(m) ELSE CarriedOver(m)

\* a cycle that fetched a statement with revenue and net income but without
\* gross profit: the profit margin is calculated, the gross margin is not
C28_Witness ==
  /\ last.op = "fetchFromPolygon"
  /\ last.fetched
  /\ Calculable("profitMargin") /\ ~Calculable("grossMargin")
  /\ input.vals["profitMargin"] # Absent
  /\ input.vals["grossMargin"] = Absent

\* a cycle that fetched no statement and kept the stored profit margin
C28_WitnessCarried ==
  /\ last.op = "fetchFromPolygon"
  /\ ~last.fetched
  /\ last.existing.vals["profitMargin"] # Absent
  /\ input.vals["profitMargin"] = last.existing.vals["profitMargin"]

\* ------------------------------------------------------------------------
\* Claims about the cache-invalidation endpoint
\* ------------------------------------------------------------------------
\* the most recent step was a clearCache(t) that ran with Redis and the
\* database up
Invalidated(t) ==
  last.op = "clearCache" /\ last.ticker = t /\ last.io = Healthy

\* C29: right after DELETE /api/fundamentals/cache/T has completed, neither
\* Redis nor the `fundamental` table holds an entry of T, and a read of T that
\* comes next, by getFundamentals or by getMarketCap, is answered neither from
\* Redis nor from the table
C29_InvalidationForcesFreshRead ==
  [][\A t \in RefTickers :
       Invalidated(t) =>
         /\ ~db[t].exists
         /\ RedisGet(FKey(t)) = NoEntry
         /\ RedisGet(MKey(t)) = NoEntry
         /\ (last'.op \in {"getFundamentals", "getMarketCap"} /\ last'.ticker = t) =>
              last'.path \notin {"cache_hit", "db_hit"}]_vars

\* ------------------------------------------------------------------------
\* Claims about LogoService
\* ------------------------------------------------------------------------
\* C30: refreshLogo is never answered from the Redis entry of the ticker
C30_RefreshNotServedFromCache ==
  [][last'.op = "refreshLogo" => last'.path # "cache_hit"]_vars

\* ------------------------------------------------------------------------
\* Claims about the cache key
\* ------------------------------------------------------------------------
\* the parts a key is made of, in the order dateFrom, dateTo, tickers,
\* importance, each only when the parameter is present
KeyParts(q) ==
  <<"earnings">>
  \o (IF q.dateFrom # Absent THEN <<"from:" \o ToString(q.dateFrom)>> ELSE <<>>)
  \o (IF q.dateTo # Absent THEN <<"to:" \o ToString(q.dateTo)>> ELSE <<>>)
  \o (IF q.tickers # <<>> THEN <<"tickers:" \o Join(q.tickers, ",")>> ELSE <<>>)
  \o (IF q.importance # NoImportance THEN <<"imp:" \o ToString(q.importance)>> ELSE <<>>)

RowsOf(events) == {EarningRow(events[i]) : i \in 1..Len(events)}

\* C32: fetchFromPolygon answers its caller while none of the events it
\* received is stored; every transaction of the background task then stores
\* at most 100 events, namely the first ones of the list that no earlier
\* transaction has stored, and leaves the events behind them to the next
\* transaction
C32_BatchesOfAtMostHundredAfterTheResponse ==
  [][/\ (pending.store = {} /\ pending'.store # {}) =>
          /\ last'.status = "ok"
          /\ earning' = earning
          /\ pending'.store = {last'.data}
     /\ \A task \in pending.store :
          earning' # earning =>
            LET batch == earning' \ earning
                n == Cardinality(batch)
                rest == SubSeq(task, n + 1, Len(task))
            IN /\ n <= 100
               /\ batch = RowsOf(SubSeq(task, 1, n))
               /\ RowsOf(rest) \cap earning' = {}
               /\ pending'.store = IF rest = <<>> THEN {} ELSE {rest}]_vars

\* a list of more than two hundred events is stored after three transactions
C32_Witness ==
  /\ last.op = "fetchFromPolygon"
  /\ Len(last.data) > 200
  /\ pending.store = {}
  /\ earning = RowsOf(last.data)

\* the second transaction of a list of more than a hundred events is pending
C32_WitnessBetweenBatches ==
  /\ last.op = "fetchFromPolygon"
  /\ Cardinality(earning) = 100
  /\ \E task \in pending.store : Len(task) + 100 = Len(last.data)

\* ------------------------------------------------------------------------
\* Claims about the table as the source of a historical answer
\* ------------------------------------------------------------------------
\* the events the upstream holds for the filter of q
UpstreamHolds(q) ==
  {UpstreamEvents[i] : i \in {j \in 1..Len(UpstreamEvents) : MatchesQuery(q, UpstreamEvents[j])}}

\* C33: when getEarnings answers a historical query from the `earning` table,
\* the rows the table returned for the query are all the events the upstream
\* holds for its filter
C33_StoreServedResultIsComplete ==
  [][(RequestStep /\ HealthyStep(last', "getEarnings") /\ last'.path = "db_hit") =>
       \A e \in UpstreamHolds(last'.query) : EarningRow(e) \in RowsFor(last'.query)]_vars

\* ------------------------------------------------------------------------
\* The `fundamental` table shared by the calendar and FundamentalsService
\* ------------------------------------------------------------------------
\* tickers of the calendar whose fundamentals are asked for
SharedTickers == {"A"}

\* getEarnings for a range that ends today, the background fetch of the
\* market capitalisation it starts for a shared ticker, and getFundamentals
\* for that ticker, in any order
NextShared ==
  \/ \E q \in TodayQueries : GetEarnings(q)
  \/ \E t \in SharedTickers : FetchMarketCapInBackground(t)
  \/ \E t \in SharedTickers : GetFundamentals(t)

SpecShared == InitEarnings /\ [][NextShared]_vars

\* ------------------------------------------------------------------------
\* getEarnings while the upstream calendar may be down
\* ------------------------------------------------------------------------
\* getEarnings(q); input = what the upstream did during the call
GetEarningsUpstream(q) ==
  \E up \in {"ok", "error"}, io \in EarnIoOutcomes :
    \E o \in {getEarnings(q, up, io)} :
       /\ redis' = o.redis
       /\ pending' = Spawn(pending, o.store, o.missing)
       /\ last' = EarningsStep("getEarnings", q, o, io, <<>>, o.data)
       /\ input' = up
       /\ UNCHANGED <<now, db, earning, prim, refresh>>

NextUpstream ==
  \/ \E q \in PastQueries \cup TodayQueries : GetEarningsUpstream(q)
  \/ StoreInDatabase
  \/ \E t \in SharedTickers : FetchMarketCapInBackground(t)

SpecUpstream == InitEarnings /\ [][NextUpstream]_vars

\* ------------------------------------------------------------------------
\* Claims about the cache and the table after concurrent refreshes
\* ------------------------------------------------------------------------
\* the record cached under the key of a service is the one that service
\* reads from the row of t
CacheAgreesWithStore(t) ==
  /\ RedisGet(MKey(t)).kind = "obj" =>
       (db[t].exists /\ RedisGet(MKey(t)).val = dbToMarketCapData(db[t]))
  /\ RedisGet(FKey(t)).kind = "obj" =>
       (db[t].exists /\ RedisGet(FKey(t)).val = dbToFundamentalsData(db[t]))

\* C34: once two concurrent requests for the same symbol have run to their
\* end, upserts and cache writes included, a record that Redis holds for the
\* symbol has the values of the row of the symbol, whatever the interleaving
C34_CacheAgreesWithStoreOnceSettled ==
  AllSettled => \A t \in RefTickers : CacheAgreesWithStore(t)

\* ------------------------------------------------------------------------
\* Claims about the age of the values under a renewed updatedAt
\* ------------------------------------------------------------------------
\* the row of t was too old to be served and this getMarketCap step has
\* written it again, which sets updatedAt to the time of the write
RenewsStaleRow(t) ==
  /\ MarketCapRefresh(last') /\ last'.ticker = t
  /\ db[t].exists /\ now - db[t].updatedAt >= UPDATE_THRESHOLD_FUNDAMENTALS
  /\ db'[t].exists /\ db'[t].updatedAt = now

\* C35: a getMarketCap that renews updatedAt of a row older than the
\* threshold leaves no endpoint's columns in the row that it has not
\* received from the upstream in this same refresh
C35_RenewedRowHoldsOnlyRefetchedCategories ==
  [][\A t \in RefTickers :
       RenewsStaleRow(t) =>
         \A e \in Endpoints :
           CategoryStored(db'[t], e) => CategoryFields(e) \cap last'.fresh # {}]_vars

\* ------------------------------------------------------------------------
\* Claims about the number of refreshes of a record that stays incomplete
\* ------------------------------------------------------------------------
\* a getFundamentals that went to the upstream, wrote what it received and
\* answered with a record in which a critical field is still missing
IncompleteRefresh(l) ==
  /\ HealthyStep(l, "getFundamentals")
  /\ l.upstream /\ l.status = "ok"
  /\ isIncompleteData(l.data)

\* C36: after a refresh of a symbol has completed with a record that lacks a
\* critical field, the next read of that symbol, at the same time and with
\* store and cache in order, is answered from Redis or from the table and
\* does not go to the upstream
C36_IncompleteRecordIsNotRefetchedOnEveryRead ==
  [][(/\ IncompleteRefresh(last)
      /\ HealthyStep(last', "getFundamentals")
      /\ last'.ticker = last.ticker)
     => (/\ ~last'.upstream
         /\ last'.path \in {"cache_hit", "db_hit"})]_vars

\* ------------------------------------------------------------------------
\* Claims about getFundamentals next to the market-cap filter
\* ------------------------------------------------------------------------
\* the tickers the market-cap filter drops from the upstream calendar while
\* the `fundamental` table is d
DroppedBy(d) == filterByMarketCap(UpstreamEvents, d).filteredOut

\* C37: a getFundamentals call, its clearing of row and cache included, adds
\* no ticker to those the market-cap filter drops: a ticker whose market
\* capitalisation was stored before the call passes the filter after it
C37_GetFundamentalsKeepsStoredMarketCap ==
  [][last'.op = "getFundamentals" => DroppedBy(db') \subseteq DroppedBy(db)]_vars

\* ------------------------------------------------------------------------
\* Claims about a failing transaction of storeInDatabase
\* ------------------------------------------------------------------------
\* this step ran the transaction of the next batch of the task and the
\* batch is not in the table afterwards
BatchFailed(task) == ~(RowsOf(Take(task, BATCH_SIZE)) \subseteq earning')

\* C38: when the transaction of a batch fails, the answer the caller has
\* received stays as it was, no row of the failing batch is stored, the
\* task ends without trying a later batch, and the table holds exactly the
\* events of the batches before the failing one
C38_FailedBatchEndsTheTask ==
  [][\A task \in pending.store :
       BatchFailed(task) =>
         /\ last' = last
         /\ earning' = earning
         /\ pending'.store = {}
         /\ earning' = RowsOf(SubSeq(last.data, 1, Len(last.data) - Len(task)))]_vars

\* the second transaction of a list of more than two hundred events has
\* failed: the first hundred events are stored and nothing is pending
C38_Witness ==
  /\ last.op = "fetchFromPolygon"
  /\ Len(last.data) > 200
  /\ pending.store = {}
  /\ earning = RowsOf(Take(last.data, BATCH_SIZE))

\* ------------------------------------------------------------------------
\* Claims about getEarnings when the upstream calendar fails
\* ------------------------------------------------------------------------
\* a getEarnings for query kind `past` that went to the upstream and got an
\* error or an answer without valid results
UpstreamFailed(l, up, past) ==
  /\ l.op = "getEarnings" /\ l.upstream
  /\ up = "error"
  /\ isPastEarnings(l.query) = past

\* C39: a historical getEarnings whose upstream call fails writes no entry
\* under the key of the query; when Redis holds none for that key, the
\* request that follows for the same query is not answered from Redis and
\* looks into the table and asks the upstream again
C39_FailedHistoricalFetchIsNotCached ==
  [][/\ UpstreamFailed(last', input', TRUE) =>
          redis'[createCacheKey(last'.query)] = redis[createCacheKey(last'.query)]
     /\ (/\ UpstreamFailed(last, input, TRUE)
         /\ RedisGet(createCacheKey(last.query)).kind = "none"
         /\ last'.op = "getEarnings" /\ last'.query = last.query)
        => last'.path \in {"db_hit", "db_error", "fetch"}]_vars

\* a historical query has just failed at the upstream and has no entry
C39_Witness ==
  /\ UpstreamFailed(last, input, TRUE)
  /\ last.data = <<>>
  /\ RedisGet(createCacheKey(last.query)).kind = "none"

\* C40: a getEarnings for a range that is not over whose upstream call fails
\* answers with the empty list and without an error, whatever the `earning`
\* table holds for the query
C40_FailedCurrentFetchReturnsEmptyList ==
  [][UpstreamFailed(last', input', FALSE) =>
       (last'.status = "ok" /\ last'.data = <<>>)]_vars

\* the upstream has failed for a range that ends today while the table holds
\* events of the range whose ticker has a market capitalisation
C40_Witness ==
  /\ UpstreamFailed(last, input, FALSE)
  /\ last.status = "ok" /\ last.data = <<>>
  /\ \E r \in RowsFor(last.query) : HasMarketCap(r.ticker)

====
